---- MODULE Spec2Model ----
(***************************************************************************)
(* A model of the clang-tidy daemon (src/daemon/src/main.rs).              *)
(*                                                                         *)
(* Spec      the dispatcher serving analyzeFile, initialize and            *)
(*           configChanged one request at a time: compile database index,  *)
(*           unsaved-buffer path, analyze_file with both cache tiers       *)
(* SpecConc  the dispatcher and a project worker running analyze_file on   *)
(*           the same file concurrently                                    *)
(* SpecFile  analyzeFile while the compile database is rewritten, removed  *)
(*           and created between the requests                              *)
(* SpecRun   analyzeProject runs (supervisor thread and worker pool) and   *)
(*           cancel requests; SpecRunFair adds the scheduling of threads   *)
(* SpecDispatch  the read loop of main: lines, responses, logs, exit       *)
(* SpecSound  SpecConc with an analyzer whose output is determined by the  *)
(*           state of the file it reads                                    *)
(* SpecIndex  get_compile_index across analyzeFile requests                *)
(* SpecUnsaved  analyzeFile with and without an unsaved buffer             *)
(* SpecIncr  one project run file by file, with the incremental filter;    *)
(*           SpecIncrFair adds the scheduling of threads                   *)
(* SpecSettings  initialize and configChanged with the settings they carry *)
(* SpecCaps  apply_diagnostic_caps, step by step                           *)
(* SpecOffsets  offset_to_line_col, step by step                           *)
(* SpecPool  one project run over a given list: chunks, pool threads,      *)
(*           outcomes, notifications; SpecPoolFair adds the scheduling     *)
(* SpecPercent  the percent of a progress report, in f64 arithmetic        *)
(* SpecThrottle  throttle_publish and the publishDiagnostics lines, with a *)
(*           clock                                                         *)
(* SpecDisk  analyzeFile over a cache directory that holds foreign,        *)
(*           damaged and unreadable files, with failing disk writes        *)
(* SpecTimeout  run_command_with_timeout, the child and a clock            *)
(* SpecLocks  the mutexes shared by dispatcher, supervisor and pool        *)
(* SpecList   index.files against load_project_files                       *)
(* SpecFilter the diagnostics kept by analyzeFile on both paths            *)
(* SpecPipe   run_command_with_timeout and a child that fills its pipes    *)
(* SpecOrder  the lines of an analyzeProject request on stdout             *)
(*                                                                         *)
(* Option<T> is modelled as <<>> (None) or <<x>> (Some(x)).                *)
(* A 64-bit DefaultHasher digest is modelled by the sequence of values fed *)
(* to the hasher (collision-free hashing).                                 *)
(***************************************************************************)
EXTENDS Integers, Sequences, FiniteSets, TLC

None == <<>>
Some(x) == <<x>>

(***************************************************************************)
(* Bounds of the model.                                                    *)
(***************************************************************************)
\* mtimes (seconds) a file on disk takes: 1..MaxMtime
MaxMtime == 2
\* distinct non-empty diagnostic lists the analyzer may print: 1..MaxDiag
MaxDiag == 1
\* project runs started and files dispatched in one behaviour, maxWorkers,
\* batchSize
MaxRuns == 2
MaxFiles == 2
MaxWorkers == 2
MaxBatch == 1
\* lines read by the dispatcher loop in one behaviour
MaxLines == 3
\* files of the list a project run resolves
MaxList == 2
\* apply_diagnostic_caps: diagnostics of a file, fixes of a diagnostic, and
\* the largest maxDiagnosticsPerFile and maxFixesPerFile
MaxCapDiags == 3
MaxCapFixes == 2
MaxCap == 4
\* offset_to_line_col: characters of the text
MaxChars == 3
\* a project run followed file by file: files of the list, batchSize
MaxPoolFiles == 3
MaxPoolBatch == 2
\* the progress report: files of a project run
MaxPercentTotal == 500
\* digits of the significand of an f64
MantissaBits == 53
\* SpecThrottle: the largest publishDiagnosticsThrottleMs, the last instant of
\* the clock, and the closures that publish
MaxThrottle == 2
MaxClock == 4
MaxPublishers == 2
\* SpecTimeout: the largest perFileTimeoutMs, in poll intervals
MaxTimeoutPolls == 2
\* thread::sleep(Duration::from_millis(50)) between two polls of the child
PollMs == 50
\* SpecList: the entries of a compile database
MaxDbEntries == 3
\* SpecFilter: the diagnostic lines and the fixes the analyzer reports
MaxReported == 2
MaxReportedFixes == 1

(***************************************************************************)
(* The file system the daemon sees.                                        *)
(***************************************************************************)
Root == "/p"
FilePath == "/p/a.cc"
OtherPath == "/p/other.cc"
DbDefault == "/p/compile_commands.json"
DbAlt == "/alt/compile_commands.json"
DbPaths == {DbDefault, DbAlt}
RootCacheDir == "/p/.vscode/clang-tidy-daemon-cache"
AltDbCacheDir == "/alt/.vscode/clang-tidy-daemon-cache"
AltCacheDir == "/alt-cache"
Dirs == {RootCacheDir, AltDbCacheDir, AltCacheDir}
Sizes == {10, 20}
Sigs == {<<m, 10>> : m \in 1..MaxMtime} \cup {<<1, s>> : s \in Sizes}
Outputs == {<<>>} \cup {<<d>> : d \in 1..MaxDiag}
Modes == {"full", "quick"}

\* Path::parent of a compile database path
Parent(p) == IF p = DbDefault THEN "/p" ELSE "/alt"
\* <dir>/.vscode/clang-tidy-daemon-cache
DefaultCacheUnder(d) == IF d = "/p" THEN RootCacheDir ELSE AltDbCacheDir
\* PathBuf::is_absolute
IsAbsolute(f) == f \in {FilePath, OtherPath, "/p/./a.cc", "/tmp/unsaved/a.cc"}
\* PathBuf::join for the relative names of the model
Join(d, f) == IF d = "/p" /\ f = "a.cc" THEN FilePath ELSE f
\* std::fs::canonicalize(p).unwrap_or(p): "." components are removed
Canonical(p) == IF p = "/p/./a.cc" THEN FilePath ELSE p

(***************************************************************************)
(* Settings (main.rs 21-45) and the values a client sends.                 *)
(***************************************************************************)
DefaultSettings ==
  [clangTidyPath |-> "", compileCommandsPath |-> "", extraArgs |-> <<>>,
   maxWorkers |-> 0, quickChecks |-> "", maxDiagnosticsPerFile |-> 0,
   maxFixesPerFile |-> 0, daemonCacheOnDisk |-> FALSE, daemonCacheDir |-> "",
   perFileTimeoutMs |-> 0, publishDiagnosticsThrottleMs |-> 0]

\* the second value of every option a behaviour may vary
AltValue ==
  [clangTidyPath |-> "/opt/clang-tidy", compileCommandsPath |-> DbAlt,
   extraArgs |-> <<"-x">>, maxWorkers |-> 2, quickChecks |-> "bugprone-*",
   maxDiagnosticsPerFile |-> 1, maxFixesPerFile |-> 1,
   daemonCacheDir |-> AltCacheDir, perFileTimeoutMs |-> 100]

\* what one behaviour varies besides daemonCacheOnDisk: one option of the
\* settings, the request's mode, the file, the mtime of the compile database,
\* the mtime of .clang-tidy or (with the settings fixed) the compile database
Varied ==
  DOMAIN AltValue
  \cup {"mode", "file", "compileDbMtime", "configMtime", "compileDb"}

SettingsChoices(v) ==
  {[DefaultSettings EXCEPT !.daemonCacheOnDisk = d] :
     d \in IF v = "compileDb" THEN {TRUE} ELSE BOOLEAN}
  \cup {[[DefaultSettings EXCEPT ![f] = AltValue[f]]
            EXCEPT !.daemonCacheOnDisk = d] :
          f \in ({v} \cap DOMAIN AltValue), d \in BOOLEAN}

ModeChoices(v) == IF v = "mode" THEN Modes ELSE {"full"}

(***************************************************************************)
(* Compile database entries (main.rs 203-228).  A command line is modelled *)
(* by its tokens.                                                          *)
(***************************************************************************)
EntryAbs ==
  [file |-> FilePath, directory |-> "/p", command |-> None,
   arguments |-> Some(<<"cc", "-c", FilePath>>)]
EntryRel ==
  [file |-> "a.cc", directory |-> "/p", command |-> Some(<<"cc", "-c", "a.cc">>),
   arguments |-> None]
EntryNoRef ==
  [file |-> "/p/./a.cc", directory |-> "/p", command |-> None,
   arguments |-> Some(<<"cc", "-c", "src.cc">>)]
EntryNoArgs ==
  [file |-> FilePath, directory |-> "/p", command |-> None, arguments |-> None]
EntryOther ==
  [file |-> OtherPath, directory |-> "/p", command |-> None,
   arguments |-> Some(<<"cc", "-c", OtherPath>>)]
DbContents ==
  {<<>>, <<EntryAbs>>, <<EntryRel>>, <<EntryNoRef>>, <<EntryNoArgs>>,
   <<EntryOther>>, <<EntryOther, EntryAbs>>}
\* a compile database on disk: its mtime, whether it parses, its entries
DbFiles ==
  [exists : {TRUE}, mtime : 1..MaxMtime, valid : {TRUE}, entries : DbContents]
  \cup [exists : {TRUE}, mtime : 1..MaxMtime, valid : {FALSE}, entries : {<<>>}]
NoDb == [exists |-> FALSE, mtime |-> 0, valid |-> FALSE, entries |-> <<>>]
GoodDb == [exists |-> TRUE, mtime |-> 1, valid |-> TRUE, entries |-> <<EntryAbs>>]

VARIABLES
  proj,              \* a project run, file by file (SpecIncr)
  req,               \* the settings request handled last (SpecSettings)
  call,              \* a call of a function of the daemon followed step by
                     \* step: its arguments, locals and result (SpecCaps,
                     \* SpecOffsets, SpecPercent, SpecThrottle, SpecTimeout,
                     \* SpecList, SpecFilter, SpecPipe, SpecOrder);
                     \* under SpecLocks the threads and the locks they hold
  settings,          \* AppState.settings
  root_dir,          \* AppState.root_dir
  compile_commands,  \* AppState.compile_commands: the discovered database path
  compile_index,     \* AppState.compile_index
  cache,             \* AppState.cache: the memory tier, path -> CacheEntry
  disk,              \* the cache directories: directory -> files
  fileSig,           \* file_signature of FilePath: None or (mtime, size)
  db,                \* the compile databases on disk, by path
  cfgMtime,          \* mtime of /p/.clang-tidy, None when there is none
  job,               \* per thread: position and locals of its analysis
  varied,            \* what this behaviour varies (see Varied)
  \* history of the dispatcher's calls, recorded under Spec
  prev,              \* the previous analyzeFile call and its response
  changed,           \* an input of the analysis changed since the previous
                     \* analyzeFile call returned
  before,            \* what AppState held when the latest analyzeFile call
                     \* began, recorded under SpecUnsaved
  \* history of the disk writes, recorded under SpecConc
  overlap,           \* per thread: another write ran during its current write
  evictOk,           \* per thread: its eviction scan removed all it should
  evictFailed,       \* some eviction scan so far has not
  \* project runs (SpecRun)
  cancel_map,        \* AppState.cancel_map: runId -> the run whose flag it holds
  cancel_flag,       \* per run: its cancellation flag (Arc<AtomicBool>)
  run,               \* per run: the supervisor thread's position and locals
  pool,              \* per run: how many pool threads are at each position
                     \* of the worker closure
  reached,           \* per run: a cancel request has set this run's flag
  skipped,           \* per run: a worker has found the flag set and returned
  after,             \* per run: publishDiagnostics sent since a cancel request
                     \* reached the run
  \* the dispatcher loop (SpecDispatch)
  status,            \* "running", "eof" (stdin closed) or "failed" (main
                     \* returned an error)
  lines,             \* number of lines read
  last,              \* the last line read and what the loop did with it
  out                \* the messages written to stdout by the loop

daemon ==
  <<settings, root_dir, compile_commands, compile_index, cache, disk, job>>
env == <<fileSig, db, cfgMtime, varied>>
calls == <<prev, changed, before>>
writes == <<overlap, evictOk, evictFailed>>
runs == <<cancel_map, cancel_flag, run, pool, reached, skipped, after>>
loop == <<status, lines, last, out>>
rest == <<runs, loop, proj, req, call>>
vars == <<daemon, env, calls, writes, runs, loop, proj, req, call>>

Threads == {"dispatcher", "worker"}

NoJob ==
  [pc |-> "idle", mode |-> "full", content |-> FALSE,
   settings |-> DefaultSettings, root |-> None, cc |-> None, index |-> None,
   sig |-> None, fp |-> None, dir |-> None, result |-> <<>>, ok |-> TRUE,
   invoked |-> FALSE, source |-> "none", fallback |-> FALSE,
   failed |-> FALSE]

\* project runs: run ids a client uses, the runs of a behaviour in the order
\* they are started
RunIds == {"p1", "p2"}
Runs == 1..MaxRuns

\* a pool whose threads all wait for a job
NoWorker == [check |-> 0, analyze |-> 0, publish |-> 0, count |-> 0]

NoRun ==
  [pc |-> "none", id |-> "p1", maxWorkers |-> 1, total |-> 0, batch_size |-> 0,
   db |-> "ok", next |-> 0, chunk_end |-> 0, queued |-> 0]

NoLine ==
  [kind |-> "none", method |-> "none", id |-> None, handled |-> "none",
   wrote |-> <<>>]

NoPrev ==
  [valid |-> FALSE, ok |-> FALSE, content |-> FALSE, mode |-> "full",
   sig |-> None, fp |-> None, result |-> <<>>]

\* the "settings" member of the params of a request: absent, a value that
\* does not deserialize as Settings, or settings
NoSettings == [kind |-> "absent", value |-> DefaultSettings]
BadSettings == [kind |-> "invalid", value |-> DefaultSettings]
NoReq == [n |-> 0, method |-> "none", sent |-> NoSettings]

\* no function call under way
NoCall == [pc |-> "idle"]

\* no project run yet
NoProj ==
  [pc |-> "none", flag |-> FALSE, incremental |-> TRUE, batch_size |-> 0,
   settings |-> DefaultSettings, root |-> None, cc |-> None, mode |-> "full",
   files |-> <<>>, loaded |-> TRUE, cached |-> <<>>, order |-> <<>>,
   st |-> <<>>, pubs |-> <<>>, next |-> 0, chunk_end |-> 0, done |-> 0,
   reports |-> 0, message |-> "none", logs |-> <<>>, diags |-> <<>>]

\* no analyzeFile call on record
NoBefore == [served |-> FALSE, held |-> <<>>]

(***************************************************************************)
(* Helpers translated from the source.                                     *)
(***************************************************************************)
\* mtime_for_path of a compile database path
mtime_for_path(p) == IF db[p].exists THEN Some(db[p].mtime) ELSE None

\* clang_tidy_config_mtime: the first of compile_dir, root_dir that holds a
\* .clang-tidy file (only /p may hold one in the model)
clang_tidy_config_mtime(root, compile_dir) ==
  LET candidates == compile_dir \o root
      hits == {i \in 1..Len(candidates) :
                 candidates[i] = "/p" /\ cfgMtime # None}
  IN IF hits = {} THEN None ELSE cfgMtime

\* settings_fingerprint: the values hashed, in the order they are hashed
settings_fingerprint(s, cc, cc_mtime, config_mtime, mode) ==
  <<s.clangTidyPath, s.extraArgs, s.maxWorkers, s.quickChecks,
    s.maxDiagnosticsPerFile, s.maxFixesPerFile, s.perFileTimeoutMs, mode,
    cc, cc_mtime, config_mtime>>

\* cache_key_for_path: the hash of the path string
cache_key_for_path(path) == <<path>>

\* cache_file_name: "<key16>-<mtime>-<size>-<fp16>.json"
cache_file_name(key, mtime, size, settings_hash) ==
  <<key, mtime, size, settings_hash>>

\* name.starts_with("<key16>-")
HasPrefix(name, key) == name[1] = key

DISK_CACHE_VERSION == 1

\* resolve_cache_dir (create_dir_all succeeds)
resolve_cache_dir(s, root, compile_dir) ==
  IF ~s.daemonCacheOnDisk THEN None
  ELSE LET base == IF s.daemonCacheDir # "" THEN Some(s.daemonCacheDir)
                   ELSE IF root # None THEN Some(DefaultCacheUnder(root[1]))
                   ELSE IF compile_dir # None
                          THEN Some(DefaultCacheUnder(compile_dir[1]))
                   ELSE None
       IN base

\* the memory tier's test in analyze_file (main.rs 622-626)
\* a memory tier that never answers
MemoryHit_never(entry, mtime, size, settings_hash) == FALSE

\* a memory tier that compares the file signature alone
MemoryHit_any_fingerprint(entry, mtime, size, settings_hash) ==
  /\ entry # None
  /\ entry[1].mtime = mtime
  /\ entry[1].size = size

MemoryHit(entry, mtime, size, settings_hash) ==
  /\ entry # None
  /\ entry[1].mtime = mtime
  /\ entry[1].size = size
  /\ entry[1].settings_hash = settings_hash

\* what a file of the cache directory holds when it is no entry: it cannot be
\* read, or it does not parse as a DiskCacheEntry
Unreadable == [junk |-> "unreadable"]
Unparsable == [junk |-> "unparsable"]

\* std::fs::read(full_path) is Ok
Reads(data) == data # Unreadable

\* serde_json::from_slice(&data) is Ok
Parses(data) == "version" \in DOMAIN data

\* a read_disk_cache that does not look at the schema version
read_disk_cache_any_version(files, file_path, mtime, size, settings_hash) ==
  LET key == cache_key_for_path(file_path)
      filename == cache_file_name(key, mtime, size, settings_hash)
      found == {f \in files : f.name = filename}
  IN IF found = {} THEN None
     ELSE LET entry == (CHOOSE f \in found : TRUE).data
          IN IF ~Reads(entry) THEN None
             ELSE IF ~Parses(entry) THEN None
             ELSE IF entry.filePath # file_path THEN None
             ELSE IF entry.mtime # mtime \/ entry.size # size
                       \/ entry.settingsHash # settings_hash THEN None
             ELSE Some(entry.diagnostics)

\* read_disk_cache: Some(diagnostics) or None
read_disk_cache(files, file_path, mtime, size, settings_hash) ==
  LET key == cache_key_for_path(file_path)
      filename == cache_file_name(key, mtime, size, settings_hash)
      found == {f \in files : f.name = filename}
  IN IF found = {} THEN None
     ELSE LET entry == (CHOOSE f \in found : TRUE).data
          IN IF ~Reads(entry) THEN None
             ELSE IF ~Parses(entry) THEN None
             ELSE IF entry.version # DISK_CACHE_VERSION THEN None
             ELSE IF entry.filePath # file_path THEN None
             ELSE IF entry.mtime # mtime \/ entry.size # size
                       \/ entry.settingsHash # settings_hash THEN None
             ELSE Some(entry.diagnostics)

\* the file write_disk_cache persists
DiskFile(file_path, mtime, size, settings_hash, diagnostics) ==
  [name |-> cache_file_name(cache_key_for_path(file_path), mtime, size,
                            settings_hash),
   data |-> [version |-> DISK_CACHE_VERSION, filePath |-> file_path,
             mtime |-> mtime, size |-> size, settingsHash |-> settings_hash,
             diagnostics |-> diagnostics]]

\* write_disk_cache up to tmp.persist: the rename replaces a file of that name
Persisted(files, file) == {f \in files : f.name # file.name} \cup {file}

\* an eviction scan that removes nothing
EvictionVictims_none(files, filename, key) == {}

\* an eviction scan that removes only the entries of the same file signature
EvictionVictims_same_signature(files, filename, key) ==
  {f \in files : /\ f.name # filename
                 /\ HasPrefix(f.name, key)
                 /\ f.name[2] = filename[2]
                 /\ f.name[3] = filename[3]}

\* write_disk_cache's eviction scan: the files it tries to remove
EvictionVictims(files, filename, key) ==
  {f \in files : f.name # filename /\ HasPrefix(f.name, key)}

\* find_compile_commands: the walk under the root finds /p/compile_commands.json
find_compile_commands(root) ==
  IF root = Root /\ db[DbDefault].exists THEN Some(DbDefault) ELSE None

\* resolve_compile_commands_path: the path it returns
resolve_compile_commands_path(s, root, cached) ==
  IF s.compileCommandsPath # "" THEN Some(s.compileCommandsPath)
  ELSE IF cached # None /\ db[cached[1]].exists THEN cached
  ELSE IF root = None THEN None
  ELSE find_compile_commands(root[1])

\* resolve_compile_commands_path: AppState.compile_commands afterwards
CachedPathAfter(s, root, cached) ==
  IF s.compileCommandsPath # "" THEN cached
  ELSE IF cached # None /\ db[cached[1]].exists THEN cached
  ELSE IF root = None THEN cached
  ELSE IF find_compile_commands(root[1]) # None
         THEN find_compile_commands(root[1])
  ELSE cached

\* the canonical absolute path of a compile database entry
EntryPath(e) ==
  Canonical(IF IsAbsolute(e.file) THEN e.file ELSE Join(e.directory, e.file))

\* the index get_compile_index builds (main.rs 1419-1447)
BuildIndex(path, mtime, entries) ==
  LET files == [i \in 1..Len(entries) |-> EntryPath(entries[i])]
      file_set == {files[i] : i \in 1..Len(entries)}
      first(c) == CHOOSE i \in 1..Len(entries) :
                    /\ files[i] = c
                    /\ \A k \in 1..(i - 1) : files[k] # c
  IN [path |-> path, mtime |-> mtime, files |-> files, file_set |-> file_set,
      commands |-> [c \in file_set |-> entries[first(c)]]]

\* get_compile_index: [ok, index]; stored is AppState.compile_index afterwards
get_compile_index(path, existing) ==
  LET mtime == IF mtime_for_path(path) = None THEN 0 ELSE mtime_for_path(path)[1]
  IN IF existing # None /\ existing[1].path = path /\ existing[1].mtime = mtime
       THEN [ok |-> TRUE, index |-> existing, stored |-> existing]
     ELSE IF ~db[path].exists \/ ~db[path].valid
       THEN [ok |-> FALSE, index |-> None, stored |-> existing]
     ELSE LET built == BuildIndex(path, mtime, db[path].entries)
          IN [ok |-> TRUE, index |-> Some(built), stored |-> Some(built)]

\* a membership test that accepts every file
file_in_index_any(file_path, index) == TRUE

\* file_in_index
file_in_index(file_path, index) == Canonical(file_path) \in index.file_set

\* find_compile_entry
find_compile_entry(index, file_path) ==
  IF Canonical(file_path) \in DOMAIN index.commands
    THEN Some(index.commands[Canonical(file_path)])
  ELSE None

\* resolve_arguments: arguments verbatim, else the split command
resolve_arguments(entry) ==
  IF entry.arguments # None THEN entry.arguments ELSE entry.command

\* replace_file_arg: whether some argument names the file
replace_file_arg(args, raw_file, original_path) ==
  \E i \in 1..Len(args) : args[i] = raw_file \/ args[i] = original_path

\* analyze_file_with_content before the analyzer runs (main.rs 707-722):
\* "ok", or the error it returns
UnsavedPrecheck(cc, index, file_path) ==
  IF cc = None THEN "compile_commands.json not found"
  ELSE IF index = None THEN "compile_commands index missing"
  ELSE IF find_compile_entry(index[1], file_path) = None
    THEN "compile command not found for file"
  ELSE LET entry == find_compile_entry(index[1], file_path)[1]
       IN IF resolve_arguments(entry) = None
            THEN "compile command missing arguments"
          ELSE IF ~replace_file_arg(resolve_arguments(entry)[1], entry.file,
                                    file_path)
            THEN "compile command does not reference file path"
          ELSE "ok"

(***************************************************************************)
(* The state after construction (main.rs 234-242), on a machine whose      *)
(* cache directories hold an entry an earlier daemon wrote for another     *)
(* file.                                                                   *)
(***************************************************************************)
OtherFile ==
  DiskFile(OtherPath, 1, 10,
           settings_fingerprint(DefaultSettings, Some(DbDefault), Some(1), None,
                                "full"),
           <<>>)

InitDaemon ==
  /\ settings = DefaultSettings
  /\ root_dir = None
  /\ compile_commands = None
  /\ compile_index = None
  /\ cache = [p \in {FilePath} |-> None]
  /\ job = [t \in Threads |-> NoJob]
  /\ disk = [d \in Dirs |-> {OtherFile}]
  /\ fileSig = Some(<<1, 10>>)
  /\ db = [p \in DbPaths |-> GoodDb]
  /\ cfgMtime = None
  /\ prev = NoPrev
  /\ changed = FALSE
  /\ before = NoBefore
  /\ proj = NoProj
  /\ req = NoReq
  /\ call = NoCall
  /\ overlap = [t \in Threads |-> FALSE]
  /\ evictOk = [t \in Threads |-> TRUE]
  /\ evictFailed = FALSE
  /\ cancel_map = [i \in RunIds |-> 0]
  /\ cancel_flag = [r \in Runs |-> FALSE]
  /\ run = [r \in Runs |-> NoRun]
  /\ pool = [r \in Runs |-> NoWorker]
  /\ reached = [r \in Runs |-> FALSE]
  /\ skipped = [r \in Runs |-> FALSE]
  /\ after = [r \in Runs |-> 0]
  /\ status = "running"
  /\ lines = 0
  /\ last = NoLine
  /\ out = <<>>

(***************************************************************************)
(* handle_request "analyzeFile" and analyze_file, step by step.            *)
(***************************************************************************)
\* the locals a thread still holds when its call returns
Returned(j, ok, result, source, invoked) ==
  [j EXCEPT !.pc = "respond",
            \* the unsaved path's fallback: analyze_file(..).unwrap_or_default()
            !.ok = ok \/ j.fallback,
            \* whether the last path taken returned Err
            !.failed = ~ok,
            !.result = IF ok THEN result ELSE <<>>,
            !.source = source, !.invoked = invoked,
            !.settings = DefaultSettings, !.root = None, !.cc = None]

\* a handler that takes the unsaved-buffer path before it looks at the index
AfterIndex_content_first(index, content) ==
  IF content THEN "unsaved"
  ELSE IF index # None /\ ~file_in_index(FilePath, index[1]) THEN "not_in_index"
  ELSE "lookup"

\* main.rs 342-382: what the handler does once it holds the index:
\* answer with no diagnostics, take the unsaved-buffer path, or analyze_file
AfterIndex(index, content) ==
  IF index # None /\ ~file_in_index(FilePath, index[1]) THEN "not_in_index"
  ELSE IF content THEN "unsaved"
  ELSE "lookup"

\* handle_request "analyzeFile" up to the choice of the path (main.rs 318-351)
AnalyzeFile(mode, content) ==
  /\ job["dispatcher"].pc = "idle"
  /\ LET cc == resolve_compile_commands_path(settings, root_dir, compile_commands)
         got == IF cc = None THEN [ok |-> FALSE, index |-> None,
                                   stored |-> compile_index]
                ELSE get_compile_index(cc[1], compile_index)
         index == got.index
         next == AfterIndex(index, content)
         j == [NoJob EXCEPT !.pc = next, !.mode = mode, !.content = content,
                            !.settings = settings, !.root = root_dir, !.cc = cc,
                            !.index = index]
     IN /\ compile_commands' = CachedPathAfter(settings, root_dir, compile_commands)
        /\ compile_index' = got.stored
        /\ job' = [job EXCEPT !["dispatcher"] =
                     IF next = "not_in_index"
                       THEN Returned(j, TRUE, <<>>, "not_in_index", FALSE)
                     ELSE j]
  /\ UNCHANGED <<settings, root_dir, cache, disk, env>>

\* handle_request "analyzeFile" with a fileUri that is no file URI (main.rs 323)
AnalyzeFileInvalidUri ==
  /\ job["dispatcher"].pc = "idle"
  /\ job' = [job EXCEPT !["dispatcher"] =
               Returned(NoJob, FALSE, <<>>, "invalid_uri", FALSE)]
  /\ UNCHANGED <<settings, root_dir, compile_commands, compile_index, cache,
                 disk, env>>

\* an unsaved-buffer path that stores its diagnostics in the memory tier
Unsaved_stores_result(outcome) ==
  LET j == job["dispatcher"]
      compile_dir == IF j.cc = None THEN None ELSE Some(Parent(j.cc[1]))
      cc_mtime == IF j.cc = None THEN None ELSE mtime_for_path(j.cc[1])
      fp == settings_fingerprint(j.settings, j.cc, cc_mtime,
                                 clang_tidy_config_mtime(j.root, compile_dir),
                                 j.mode)
      served == /\ UnsavedPrecheck(j.cc, j.index, FilePath) = "ok"
                /\ outcome.kind = "ok"
  IN /\ j.pc = "unsaved"
     /\ job' = [job EXCEPT !["dispatcher"] =
                  IF served
                    THEN Returned(j, TRUE, outcome.out, "unsaved", TRUE)
                  ELSE [j EXCEPT !.pc = "lookup", !.fallback = TRUE]]
     /\ cache' = IF served /\ fileSig # None
                   THEN [cache EXCEPT ![FilePath] =
                           Some([mtime |-> fileSig[1][1], size |-> fileSig[1][2],
                                 settings_hash |-> fp,
                                 diagnostics |-> outcome.out])]
                 ELSE cache
     /\ UNCHANGED <<settings, root_dir, compile_commands, compile_index, disk,
                    env>>

\* analyze_file_with_content (main.rs 698-788): outcome is an I/O failure
\* ("io": temp dir, temp files, spawn, timeout) or the analyzer's diagnostics.
\* On an error the handler falls back to analyze_file (main.rs 362-372).
Unsaved(outcome) ==
  LET j == job["dispatcher"]
      pre == UnsavedPrecheck(j.cc, j.index, FilePath)
  IN /\ j.pc = "unsaved"
     /\ job' = [job EXCEPT !["dispatcher"] =
                  IF pre = "ok" /\ outcome.kind = "ok"
                    THEN Returned(j, TRUE, outcome.out, "unsaved", TRUE)
                  ELSE [j EXCEPT !.pc = "lookup", !.fallback = TRUE]]
     /\ UNCHANGED <<settings, root_dir, compile_commands, compile_index, cache,
                    disk, env>>

\* analyze_file's cache lookups (main.rs 621-641): "memory", "disk" or, on a
\* miss, "run"
LookupResult(entry, files, sig, settings_hash, dir) ==
  IF sig = None THEN "run"
  ELSE IF MemoryHit(entry, sig[1][1], sig[1][2], settings_hash) THEN "memory"
  ELSE IF dir # None
          /\ read_disk_cache(files[dir[1]], FilePath, sig[1][1], sig[1][2],
                             settings_hash) # None THEN "disk"
  ELSE "run"

CacheEntry(sig, settings_hash, diagnostics) ==
  [mtime |-> sig[1][1], size |-> sig[1][2], settings_hash |-> settings_hash,
   diagnostics |-> diagnostics]

\* analyze_file up to the cache lookups (main.rs 606-641)
Lookup(t) ==
  LET j == job[t]
      compile_dir == IF j.cc = None THEN None ELSE Some(Parent(j.cc[1]))
      sig == fileSig
      cc_mtime == IF j.cc = None THEN None ELSE mtime_for_path(j.cc[1])
      config_mtime == clang_tidy_config_mtime(j.root, compile_dir)
      settings_hash == settings_fingerprint(j.settings, j.cc, cc_mtime,
                                            config_mtime, j.mode)
      dir == resolve_cache_dir(j.settings, j.root, compile_dir)
      how == LookupResult(cache[FilePath], disk, sig, settings_hash, dir)
      jj == [j EXCEPT !.sig = sig, !.fp = settings_hash, !.dir = dir,
                      !.index = None]
  IN /\ j.pc = "lookup"
     /\ CASE how = "memory" ->
               /\ job' = [job EXCEPT ![t] =
                            Returned(jj, TRUE, cache[FilePath][1].diagnostics,
                                     "memory", FALSE)]
               /\ UNCHANGED cache
          [] how = "disk" ->
               LET diags == read_disk_cache(disk[dir[1]], FilePath, sig[1][1],
                                            sig[1][2], settings_hash)[1]
               IN /\ cache' = [cache EXCEPT ![FilePath] =
                                 Some(CacheEntry(sig, settings_hash, diags))]
                  /\ job' = [job EXCEPT ![t] =
                               Returned(jj, TRUE, diags, "disk", FALSE)]
          [] OTHER ->
               /\ job' = [job EXCEPT ![t] = [jj EXCEPT !.pc = "run"]]
               /\ UNCHANGED cache
     /\ UNCHANGED <<settings, root_dir, compile_commands, compile_index, disk,
                    env>>

\* what running the analyzer may come to: "tempfile" (NamedTempFile::new
\* fails), "failed" (the analyzer cannot be run or times out), "io" (a
\* failure of the unsaved-buffer path), or "ok" with the diagnostics left
\* after parsing, filtering and capping
Failure(kind) == [kind |-> kind, out |-> <<>>]
Analyzed == {[kind |-> "ok", out |-> o] : o \in Outputs}
RunOutcomes == {Failure("tempfile"), Failure("failed")} \cup Analyzed

\* analyze_file from the temp file to the memory tier (main.rs 643-689)
Run(t, outcome) ==
  LET j == job[t]
  IN /\ j.pc = "run"
     /\ CASE outcome.kind = "tempfile" ->
               /\ job' = [job EXCEPT ![t] =
                            Returned(j, FALSE, <<>>, "analyzer", FALSE)]
               /\ UNCHANGED cache
          [] outcome.kind = "failed" ->
               /\ job' = [job EXCEPT ![t] =
                            Returned(j, FALSE, <<>>, "analyzer", TRUE)]
               /\ UNCHANGED cache
          [] OTHER ->
               /\ cache' = IF j.sig = None THEN cache
                           ELSE [cache EXCEPT ![FilePath] =
                                   Some(CacheEntry(j.sig, j.fp, outcome.out))]
               /\ job' = [job EXCEPT ![t] =
                            IF j.sig # None /\ j.dir # None
                              THEN [j EXCEPT !.pc = "persist",
                                             !.result = outcome.out,
                                             !.invoked = TRUE,
                                             !.source = "analyzer"]
                            ELSE Returned(j, TRUE, outcome.out, "analyzer", TRUE)]
     /\ UNCHANGED <<settings, root_dir, compile_commands, compile_index, disk,
                    env>>

\* an analyze_file that returns the error of write_disk_cache
Persist_surfaced(t, written) ==
  LET j == job[t]
      file == DiskFile(FilePath, j.sig[1][1], j.sig[1][2], j.fp, j.result)
  IN /\ j.pc = "persist"
     /\ IF written
          THEN /\ disk' = [disk EXCEPT ![j.dir[1]] = Persisted(@, file)]
               /\ job' = [job EXCEPT ![t] = [j EXCEPT !.pc = "evict"]]
        ELSE /\ job' = [job EXCEPT ![t] =
                          Returned(j, FALSE, <<>>, "analyzer", TRUE)]
             /\ UNCHANGED disk
     /\ UNCHANGED <<settings, root_dir, compile_commands, compile_index, cache,
                    env>>

\* write_disk_cache up to tmp.persist (main.rs 1291-1308); written is whether
\* the temp file could be created, written and renamed
Persist(t, written) ==
  LET j == job[t]
      file == DiskFile(FilePath, j.sig[1][1], j.sig[1][2], j.fp, j.result)
  IN /\ j.pc = "persist"
     /\ IF written
          THEN /\ disk' = [disk EXCEPT ![j.dir[1]] = Persisted(@, file)]
               /\ job' = [job EXCEPT ![t] = [j EXCEPT !.pc = "evict"]]
        ELSE /\ job' = [job EXCEPT ![t] =
                          Returned(j, TRUE, j.result, "analyzer", TRUE)]
             /\ UNCHANGED disk
     /\ UNCHANGED <<settings, root_dir, compile_commands, compile_index, cache,
                    env>>

\* the files write_disk_cache is to remove when thread t has written its own
Victims(t) ==
  IF job[t].pc # "evict" THEN {}
  ELSE EvictionVictims(disk[job[t].dir[1]],
                       cache_file_name(cache_key_for_path(FilePath),
                                       job[t].sig[1][1], job[t].sig[1][2],
                                       job[t].fp),
                       cache_key_for_path(FilePath))

\* write_disk_cache's eviction scan (main.rs 1310-1322): removed are the files
\* read_dir listed and remove_file removed
Evict(t, removed) ==
  LET j == job[t]
      key == cache_key_for_path(FilePath)
      filename == cache_file_name(key, j.sig[1][1], j.sig[1][2], j.fp)
  IN /\ j.pc = "evict"
     /\ removed \subseteq EvictionVictims(disk[j.dir[1]], filename, key)
     /\ disk' = [disk EXCEPT ![j.dir[1]] = @ \ removed]
     /\ job' = [job EXCEPT ![t] = [j EXCEPT !.pc = "written"]]
     /\ UNCHANGED <<settings, root_dir, compile_commands, compile_index, cache,
                    env>>

\* write_disk_cache returns Ok and analyze_file returns the diagnostics
\* (main.rs 1324, 691-695)
Written(t) ==
  LET j == job[t]
  IN /\ j.pc = "written"
     /\ job' = [job EXCEPT ![t] = Returned(j, TRUE, j.result, "analyzer", TRUE)]
     /\ UNCHANGED <<settings, root_dir, compile_commands, compile_index, cache,
                    disk, env>>

\* the dispatcher writes the response and reads the next line (main.rs 270-284)
Respond ==
  /\ job["dispatcher"].pc = "respond"
  /\ job' = [job EXCEPT !["dispatcher"] = NoJob]
  /\ UNCHANGED <<settings, root_dir, compile_commands, compile_index, cache,
                 disk, env>>

(***************************************************************************)
(* The project worker: handle_request "analyzeProject" snapshots settings, *)
(* root and database path (main.rs 391-412); a pool thread later runs      *)
(* analyze_file on FilePath with that snapshot (main.rs 504-516).          *)
(***************************************************************************)
AnalyzeProject(mode) ==
  /\ job["dispatcher"].pc = "idle"
  /\ job["worker"].pc = "idle"
  /\ LET cc == resolve_compile_commands_path(settings, root_dir, compile_commands)
         got == IF cc = None THEN [ok |-> FALSE, index |-> None,
                                   stored |-> compile_index]
                ELSE get_compile_index(cc[1], compile_index)
     IN /\ compile_commands' = CachedPathAfter(settings, root_dir, compile_commands)
        /\ compile_index' = got.stored
        \* without a database path the run ends before any worker starts
        /\ job' = IF cc = None THEN job
                  ELSE [job EXCEPT !["worker"] =
                          [NoJob EXCEPT !.pc = "lookup", !.mode = mode,
                                        !.settings = settings,
                                        !.root = root_dir, !.cc = cc]]
  /\ UNCHANGED <<settings, root_dir, cache, disk, env>>

\* the worker publishes its diagnostics (main.rs 527-537)
WorkerPublish ==
  /\ job["worker"].pc = "respond"
  /\ job' = [job EXCEPT !["worker"] = NoJob]
  /\ UNCHANGED <<settings, root_dir, compile_commands, compile_index, cache,
                 disk, env>>

(***************************************************************************)
(* Settings: initialize and configChanged (main.rs 296-315, 581-596).      *)
(***************************************************************************)
\* rootOk: rootUri is present and a file URI; given: None or the settings sent
Initialize(rootOk, given) ==
  /\ job["dispatcher"].pc = "idle"
  /\ root_dir' = IF rootOk THEN Some(Root) ELSE root_dir
  /\ settings' = IF given # None THEN given[1] ELSE settings
  /\ compile_commands' = None
  /\ compile_index' = None
  /\ UNCHANGED <<cache, disk, job, env>>

ConfigChanged(given) ==
  /\ job["dispatcher"].pc = "idle"
  /\ IF given # None
       THEN /\ settings' = given[1]
            /\ compile_commands' = None
            /\ compile_index' = None
     ELSE UNCHANGED <<settings, compile_commands, compile_index>>
  /\ UNCHANGED <<root_dir, cache, disk, job, env>>

(***************************************************************************)
(* The environment.                                                        *)
(***************************************************************************)
\* the file is edited, removed or made unreadable
ModifyFile(sig) ==
  /\ varied = "file"
  /\ sig # fileSig
  /\ fileSig' = sig
  /\ UNCHANGED <<daemon, db, cfgMtime, varied>>

\* /p/compile_commands.json is rewritten, removed or created
ModifyDb(d) ==
  /\ \/ varied = "compileDb"
     \/ varied = "compileDbMtime" /\ d.entries = GoodDb.entries /\ d.valid
  /\ d # db[DbDefault]
  /\ db' = [db EXCEPT ![DbDefault] = d]
  /\ UNCHANGED <<daemon, fileSig, cfgMtime, varied>>

\* /p/.clang-tidy is created, rewritten or removed
TouchConfig(m) ==
  /\ varied = "configMtime"
  /\ m # cfgMtime
  /\ cfgMtime' = m
  /\ UNCHANGED <<daemon, fileSig, db, varied>>

(***************************************************************************)
(* Spec: the dispatcher alone.  The history of its calls is recorded: an   *)
(* analyzeFile call begins, the inputs change, a response is written.      *)
(***************************************************************************)
CallReturns ==
  /\ prev' = [valid |-> TRUE, ok |-> job["dispatcher"].ok,
              content |-> job["dispatcher"].content,
              mode |-> job["dispatcher"].mode, sig |-> job["dispatcher"].sig,
              fp |-> job["dispatcher"].fp, result |-> job["dispatcher"].result]
  /\ changed' = FALSE
  /\ UNCHANGED <<before, writes, rest>>

InputChanges ==
  /\ changed' = TRUE
  /\ UNCHANGED <<prev, before, writes, rest>>

SettingsChange ==
  /\ changed' = (changed \/ settings' # settings \/ root_dir' # root_dir)
  /\ UNCHANGED <<prev, before, writes, rest>>

\* under Spec the environment changes between two requests
Idle == job["dispatcher"].pc = "idle"

GivenSettings == {None} \cup {Some(s) : s \in SettingsChoices(varied)}
FileStates == {None} \cup {Some(s) : s \in Sigs}
DbStates == {NoDb} \cup DbFiles
ConfigStates == {None} \cup {Some(k) : k \in 1..MaxMtime}

Next ==
  \/ \E mode \in ModeChoices(varied), content \in BOOLEAN :
       AnalyzeFile(mode, content) /\ UNCHANGED <<calls, writes, rest>>
  \/ AnalyzeFileInvalidUri /\ UNCHANGED <<calls, writes, rest>>
  \/ \E outcome \in {Failure("io")} \cup Analyzed :
       Unsaved(outcome) /\ UNCHANGED <<calls, writes, rest>>
  \/ Lookup("dispatcher") /\ UNCHANGED <<calls, writes, rest>>
  \/ \E outcome \in RunOutcomes :
       Run("dispatcher", outcome) /\ UNCHANGED <<calls, writes, rest>>
  \/ \E written \in BOOLEAN :
       Persist("dispatcher", written) /\ UNCHANGED <<calls, writes, rest>>
  \/ Evict("dispatcher", Victims("dispatcher")) /\ UNCHANGED <<calls, writes, rest>>
  \/ Written("dispatcher") /\ UNCHANGED <<calls, writes, rest>>
  \/ Respond /\ CallReturns
  \/ \E rootOk \in BOOLEAN, given \in GivenSettings :
       Initialize(rootOk, given) /\ SettingsChange
  \/ \E given \in GivenSettings : ConfigChanged(given) /\ SettingsChange
  \/ \E sig \in FileStates : Idle /\ ModifyFile(sig) /\ InputChanges
  \/ \E d \in DbStates : Idle /\ ModifyDb(d) /\ InputChanges
  \/ \E m \in ConfigStates : Idle /\ TouchConfig(m) /\ InputChanges

Init == InitDaemon /\ varied \in Varied \ {"compileDb"}

Spec == Init /\ [][Next]_vars


(***************************************************************************)
(* Claims on the cache (C1, C2), under Spec.                               *)
(***************************************************************************)
\* the dispatcher is about to answer an analyzeFile call that follows another
SecondCall ==
  /\ job["dispatcher"].pc = "respond"
  /\ job["dispatcher"].source # "invalid_uri"
  /\ prev.valid

\* both calls were made without fileContent
OnDiskCalls == ~prev.content /\ ~job["dispatcher"].content

\* the second call repeats the first: same mode, fileContent given or not as
\* before, and no input of the analysis changed in between
Repeated ==
  /\ SecondCall
  /\ prev.ok
  /\ prev.mode = job["dispatcher"].mode
  /\ prev.content = job["dispatcher"].content
  /\ ~changed

SameAnswer ==
  /\ job["dispatcher"].ok
  /\ job["dispatcher"].result = prev.result
  /\ ~job["dispatcher"].invoked

\* C1 as stated: a repeated analyzeFile call with unchanged inputs returns the
\* same diagnostics as the first and does not invoke the analyzer.
C1_AsStated == Repeated => SameAnswer

\* C1: a repeated analyzeFile call without fileContent, made with the same mode
\* while the file's metadata is readable and no input changed since the first
\* call returned diagnostics, returns the same diagnostics and does not invoke
\* the analyzer (no other analysis of the file runs in the meantime).
C1_RepeatedCallIsServed ==
  (Repeated /\ OnDiskCalls /\ fileSig # None) => SameAnswer

\* a repeated call is answered from the memory tier with a diagnostic
C1_Witness ==
  /\ Repeated /\ OnDiskCalls /\ fileSig # None
  /\ job["dispatcher"].source = "memory"
  /\ prev.result # <<>>

\* both calls ran analyze_file's lookups and their keys differ
KeysDiffer ==
  /\ SecondCall /\ OnDiskCalls
  /\ prev.fp # None /\ job["dispatcher"].fp # None
  /\ (prev.fp # job["dispatcher"].fp \/ prev.sig # job["dispatcher"].sig)

\* every input of C2's list changes the fingerprint
FingerprintInputs ==
  /\ \A f \in {"clangTidyPath", "extraArgs", "maxWorkers", "quickChecks",
               "maxDiagnosticsPerFile", "maxFixesPerFile", "perFileTimeoutMs"} :
       settings_fingerprint([DefaultSettings EXCEPT ![f] = AltValue[f]],
                            Some(DbDefault), Some(1), None, "full")
         # settings_fingerprint(DefaultSettings, Some(DbDefault), Some(1), None,
                                "full")
  /\ \A cc1, cc2 \in {None} \cup {Some(q) : q \in DbPaths},
        m1, m2, k1, k2 \in {None} \cup {Some(k) : k \in 1..MaxMtime},
        mode1, mode2 \in Modes :
       <<cc1, m1, k1, mode1>> # <<cc2, m2, k2, mode2>>
         => settings_fingerprint(DefaultSettings, cc1, m1, k1, mode1)
              # settings_fingerprint(DefaultSettings, cc2, m2, k2, mode2)

DiskEntryForCall ==
  /\ settings.daemonCacheOnDisk
  /\ job["dispatcher"].dir # None
  /\ job["dispatcher"].sig # None
  /\ DiskFile(FilePath, job["dispatcher"].sig[1][1], job["dispatcher"].sig[1][2],
              job["dispatcher"].fp, job["dispatcher"].result)
       \in disk[job["dispatcher"].dir[1]]

InitFile == InitDaemon /\ varied = "compileDb"

NextFile ==
  \/ \E content \in BOOLEAN :
       AnalyzeFile("full", content) /\ UNCHANGED <<calls, writes, rest>>
  \/ \E outcome \in {Failure("io")} \cup Analyzed :
       Unsaved(outcome) /\ UNCHANGED <<calls, writes, rest>>
  \/ Lookup("dispatcher") /\ UNCHANGED <<calls, writes, rest>>
  \/ \E outcome \in RunOutcomes :
       Run("dispatcher", outcome) /\ UNCHANGED <<calls, writes, rest>>
  \/ \E written \in BOOLEAN :
       Persist("dispatcher", written) /\ UNCHANGED <<calls, writes, rest>>
  \/ Evict("dispatcher", Victims("dispatcher")) /\ UNCHANGED <<calls, writes, rest>>
  \/ Written("dispatcher") /\ UNCHANGED <<calls, writes, rest>>
  \/ Respond /\ UNCHANGED <<calls, writes, rest>>
  \/ \E rootOk \in BOOLEAN, given \in {None} \cup {Some(s) : s \in SettingsChoices("compileDb")} :
       Initialize(rootOk, given) /\ UNCHANGED <<calls, writes, rest>>
  \/ \E d \in DbStates : Idle /\ ModifyDb(d) /\ UNCHANGED <<calls, writes, rest>>

SpecFile == InitFile /\ [][NextFile]_vars

(***************************************************************************)
(* SpecConc: the dispatcher (analyzeFile) and a project worker run         *)
(* analyze_file on the same file concurrently, with requests of both modes *)
(* and a file that is edited meanwhile.  The history of the disk writes is *)
(* recorded: which writes overlapped, which eviction scans fell short.     *)
(***************************************************************************)
InitConc == InitDaemon /\ varied = "file"

Other(t) == CHOOSE u \in Threads : u # t

\* thread t is inside write_disk_cache
InWrite(t) == job[t].pc \in {"persist", "evict", "written"}

EntersWrite(t) ==
  /\ overlap' = IF job'[t].pc = "persist"
                  THEN [overlap EXCEPT ![t] = InWrite(Other(t)),
                                       ![Other(t)] = InWrite(Other(t))]
                ELSE overlap
  /\ UNCHANGED <<evictOk, evictFailed, calls, rest>>

Scans(t, removed) ==
  /\ evictOk' = [evictOk EXCEPT ![t] = (removed = Victims(t))]
  /\ evictFailed' = (evictFailed \/ removed # Victims(t))
  /\ UNCHANGED <<overlap, calls, rest>>

LeavesWrite(t) ==
  /\ overlap' = IF job'[t].pc = "respond" THEN [overlap EXCEPT ![t] = FALSE]
                ELSE overlap
  /\ evictOk' = IF job'[t].pc = "respond" THEN [evictOk EXCEPT ![t] = TRUE]
                ELSE evictOk
  /\ UNCHANGED <<evictFailed, calls, rest>>

FileStatesConc == {Some(<<1, 10>>), Some(<<2, 10>>)}
RunOutcomesConc == {Failure("failed"), [kind |-> "ok", out |-> <<>>]}

NextConc ==
  \/ Initialize(TRUE, Some([DefaultSettings EXCEPT !.daemonCacheOnDisk = TRUE]))
       /\ UNCHANGED <<calls, writes, rest>>
  \/ \E mode \in Modes : AnalyzeFile(mode, FALSE) /\ UNCHANGED <<calls, writes, rest>>
  \/ \E mode \in Modes : AnalyzeProject(mode) /\ UNCHANGED <<calls, writes, rest>>
  \/ \E t \in Threads : Lookup(t) /\ UNCHANGED <<calls, writes, rest>>
  \/ \E t \in Threads, outcome \in RunOutcomesConc :
       Run(t, outcome) /\ EntersWrite(t)
  \/ \E t \in Threads, written \in BOOLEAN :
       Persist(t, written) /\ LeavesWrite(t)
  \/ \E t \in Threads, removed \in SUBSET UNION {disk[d] : d \in Dirs} :
       Evict(t, removed) /\ Scans(t, removed)
  \/ \E t \in Threads : Written(t) /\ LeavesWrite(t)
  \/ Respond /\ UNCHANGED <<calls, writes, rest>>
  \/ WorkerPublish /\ UNCHANGED <<calls, writes, rest>>
  \/ \E sig \in FileStatesConc : ModifyFile(sig) /\ UNCHANGED <<calls, writes, rest>>

SpecConc == InitConc /\ [][NextConc]_vars

(***************************************************************************)
(* Claims on the disk tier (C3, C4), under SpecConc.                       *)
(***************************************************************************)
\* the disk-cache files of FilePath in a cache directory
FilesOfKey(d) == {f \in disk[d] : HasPrefix(f.name, cache_key_for_path(FilePath))}

\* thread t has completed a successful write: its file is renamed into place
\* and its eviction scan is over
WriteCompleted(t) == job[t].pc = "written"

OwnFile(t) ==
  DiskFile(FilePath, job[t].sig[1][1], job[t].sig[1][2], job[t].fp,
           job[t].result)

Quiescent == \A t \in Threads : ~InWrite(t)

AnalyzerOutput(sig) ==
  IF sig # None /\ sig[1][1] <= MaxDiag THEN <<sig[1][1]>> ELSE <<>>

\* the analyzer fails, or reads the file as it is now
RunOutcomesSound ==
  {Failure("failed"), [kind |-> "ok", out |-> AnalyzerOutput(fileSig)]}

NextSound ==
  \/ Initialize(TRUE, Some([DefaultSettings EXCEPT !.daemonCacheOnDisk = TRUE]))
       /\ UNCHANGED <<calls, writes, rest>>
  \/ \E mode \in Modes : AnalyzeFile(mode, FALSE) /\ UNCHANGED <<calls, writes, rest>>
  \/ \E mode \in Modes : AnalyzeProject(mode) /\ UNCHANGED <<calls, writes, rest>>
  \/ \E t \in Threads : Lookup(t) /\ UNCHANGED <<calls, writes, rest>>
  \/ \E t \in Threads, outcome \in RunOutcomesSound :
       Run(t, outcome) /\ UNCHANGED <<calls, writes, rest>>
  \/ \E t \in Threads, written \in BOOLEAN :
       Persist(t, written) /\ UNCHANGED <<calls, writes, rest>>
  \/ \E t \in Threads : Evict(t, Victims(t)) /\ UNCHANGED <<calls, writes, rest>>
  \/ \E t \in Threads : Written(t) /\ UNCHANGED <<calls, writes, rest>>
  \/ Respond /\ UNCHANGED <<calls, writes, rest>>
  \/ WorkerPublish /\ UNCHANGED <<calls, writes, rest>>
  \/ \E sig \in FileStatesConc : ModifyFile(sig) /\ UNCHANGED <<calls, writes, rest>>

InitSound == InitDaemon /\ varied = "file"

SpecSound == InitSound /\ [][NextSound]_vars

\* the diagnostics of an entry are those of the file state it is keyed by
SoundEntry(mtime, size, diagnostics) ==
  diagnostics = AnalyzerOutput(Some(<<mtime, size>>))

\* C19 as stated: every entry of the memory tier and of the disk tier holds
\* the diagnostics produced from the file state (mtime, size) it is keyed by,
\* also when the file changes while its analysis is running.
C19_AsStated ==
  /\ cache[FilePath] # None
       => SoundEntry(cache[FilePath][1].mtime, cache[FilePath][1].size,
                     cache[FilePath][1].diagnostics)
  /\ \A d \in Dirs : \A f \in FilesOfKey(d) :
       SoundEntry(f.data.mtime, f.data.size, f.data.diagnostics)

(***************************************************************************)
(* SpecIndex: the compile database index across analyzeFile requests.      *)
(* get_compile_index (main.rs 1409-1451) is called with the path that      *)
(* resolve_compile_commands_path returns: the configured path, whether or  *)
(* not a file is there, or a discovered one.  Both databases are created,  *)
(* rewritten and removed between the requests; a database may carry the    *)
(* mtime 0 (1970-01-01T00:00:00Z).  Each call of get_compile_index is      *)
(* recorded: its path, the database file and the stored index it found,    *)
(* and what it returned.                                                   *)
(***************************************************************************)
DbStatesIndex ==
  {NoDb}
  \cup [exists : {TRUE}, mtime : 0..1, valid : BOOLEAN,
        entries : {<<EntryAbs>>}]

SettingsIndex ==
  {DefaultSettings, [DefaultSettings EXCEPT !.compileCommandsPath = DbAlt]}

\* a compile database is created, rewritten or removed
RewriteDb(p, d) ==
  /\ d # db[p]
  /\ db' = [db EXCEPT ![p] = d]
  /\ UNCHANGED <<daemon, fileSig, cfgMtime, varied>>

\* the call of get_compile_index the handler makes, if it makes one
IndexCalled ==
  LET cc == resolve_compile_commands_path(settings, root_dir, compile_commands)
  IN /\ call' = IF cc = None THEN [pc |-> "nopath"]
                ELSE [pc |-> "index", path |-> cc[1], file |-> db[cc[1]],
                      existing |-> compile_index,
                      got |-> get_compile_index(cc[1], compile_index)]
     /\ UNCHANGED <<calls, writes, runs, loop, proj, req>>

NextIndex ==
  \/ AnalyzeFile("full", FALSE) /\ IndexCalled
  \/ Lookup("dispatcher") /\ UNCHANGED <<calls, writes, rest>>
  \/ \E outcome \in RunOutcomesConc :
       Run("dispatcher", outcome) /\ UNCHANGED <<calls, writes, rest>>
  \/ Respond /\ UNCHANGED <<calls, writes, rest>>
  \/ \E rootOk \in BOOLEAN, s \in SettingsIndex :
       Initialize(rootOk, Some(s)) /\ UNCHANGED <<calls, writes, rest>>
  \/ \E p \in DbPaths, d \in DbStatesIndex :
       Idle /\ RewriteDb(p, d) /\ UNCHANGED <<calls, writes, rest>>

InitIndex == InitDaemon /\ varied = "compileDb"

SpecIndex == InitIndex /\ [][NextIndex]_vars

\* the stored index the call found is the index of the requested path as of
\* the database file's mtime
StoredIsFresh ==
  /\ call.existing # None
  /\ call.existing[1].path = call.path
  /\ call.file.exists
  /\ call.existing[1].mtime = call.file.mtime

\* C20 as stated: every index get_compile_index returns has the requested
\* path and the mtime the database file has in that call; when the stored
\* index has another path or mtime it is rebuilt from the file and replaced
\* wholesale, and when that rebuild fails (no file, or not a valid database)
\* an error is returned instead of the old index.
C20_AsStated ==
  call.pc = "index" =>
    /\ call.got.ok =>
         /\ call.got.index # None
         /\ call.got.index[1].path = call.path
         /\ call.file.exists
         /\ call.got.index[1].mtime = call.file.mtime
    /\ (~StoredIsFresh /\ call.file.exists /\ call.file.valid) =>
         /\ call.got.ok
         /\ call.got.index =
              Some(BuildIndex(call.path, call.file.mtime, call.file.entries))
         /\ call.got.stored = call.got.index
    /\ (~StoredIsFresh /\ ~(call.file.exists /\ call.file.valid)) =>
         ~call.got.ok

(***************************************************************************)
(* SpecRun: project runs.  handle_request "analyzeProject" registers a     *)
(* cancellation flag under the run id and spawns the supervisor thread     *)
(* (main.rs 390-563); the supervisor feeds a pool of worker threads chunk  *)
(* by chunk; handle_request "cancel" sets flags (main.rs 564-576).         *)
(***************************************************************************)
outsideRuns == <<daemon, env, calls, writes, loop, proj, req, call>>

Min(a, b) == IF a < b THEN a ELSE b

\* a pool of one thread more than the setting asks for
PoolSize_one_more(maxWorkers) == (IF maxWorkers > 1 THEN maxWorkers ELSE 1) + 1

\* settings.maxWorkers.max(1): the threads of the run's pool (main.rs 488)
PoolSize(maxWorkers) == IF maxWorkers > 1 THEN maxWorkers ELSE 1

\* effective_batch (main.rs 490)
EffectiveBatch(batch_size, total) ==
  IF batch_size = 0 THEN total ELSE IF batch_size > 1 THEN batch_size ELSE 1

\* a worker that does not look at the flag
Cancelled_never(flag) == FALSE

\* cancel.load(Ordering::Relaxed) at the head of the worker closure (main.rs
\* 505); the flag is read as last written
Cancelled(flag) == flag

\* a cancel request without a runId that is a string
NoRunId == "<absent>"

\* a cancel that takes every runId it does not know for "*"
CancelTargets_unknown_is_all(id) ==
  IF id = NoRunId THEN {}
  ELSE IF id \in RunIds /\ cancel_map[id] # 0 THEN {cancel_map[id]}
  ELSE {cancel_map[i] : i \in RunIds} \ {0}

\* the flags a cancel request sets (main.rs 565-574)
CancelTargets(id) ==
  IF id = NoRunId THEN {}
  ELSE IF id = "*" THEN {cancel_map[i] : i \in RunIds} \ {0}
  ELSE IF id \in RunIds /\ cancel_map[id] # 0 THEN {cancel_map[id]}
  ELSE {}

\* the pool threads of run r that are running the worker closure
Active(r) == pool[r].check + pool[r].analyze + pool[r].publish + pool[r].count

\* files of the runs started so far
Dispatched == LET S[r \in 0..MaxRuns] == IF r = 0 THEN 0 ELSE S[r - 1] + run[r].total
              IN S[MaxRuns]

\* handle_request "analyzeProject" (main.rs 390-424, 562): total is the number
\* of files left after the incremental filter, database what the run finds of
\* the compile database: "ok", or "missing" (no path, or neither an index nor
\* a file list can be loaded)
StartProject(r, id, total, batch_size, database) ==
  /\ run[r].pc = "none"
  /\ \A q \in Runs : q < r => run[q].pc # "none"
  /\ Dispatched + total <= MaxFiles
  /\ cancel_map' = [cancel_map EXCEPT ![id] = r]
  /\ cancel_flag' = [cancel_flag EXCEPT ![r] = FALSE]
  /\ run' = [run EXCEPT ![r] =
               [NoRun EXCEPT !.pc = "begin", !.id = id,
                             !.maxWorkers = settings.maxWorkers,
                             !.total = total,
                             !.batch_size = batch_size, !.db = database]]
  /\ UNCHANGED <<pool, outsideRuns>>

\* handle_request "cancel" (main.rs 564-576)
Cancel(id) ==
  /\ cancel_flag' = [r \in Runs |-> cancel_flag[r] \/ r \in CancelTargets(id)]
  /\ UNCHANGED <<cancel_map, run, pool, outsideRuns>>

\* the supervisor sends progress "begin" (main.rs 420-424)
Begin(r) ==
  /\ run[r].pc = "begin"
  /\ run' = [run EXCEPT ![r].pc = "files"]
  /\ UNCHANGED <<cancel_map, cancel_flag, pool, outsideRuns>>

\* the supervisor resolves the file list (main.rs 426-483): without a database
\* it logs and returns, with no file it sends "end" and returns
Files(r) ==
  /\ run[r].pc = "files"
  /\ run' = [run EXCEPT ![r] =
               IF run[r].db # "ok" THEN [@ EXCEPT !.pc = "aborted"]
               ELSE IF run[r].total = 0 THEN [@ EXCEPT !.pc = "finished"]
               ELSE [@ EXCEPT !.pc = "dispatch",
                              !.chunk_end =
                                Min(EffectiveBatch(run[r].batch_size,
                                                   run[r].total),
                                    run[r].total)]]
  /\ UNCHANGED <<cancel_map, cancel_flag, pool, outsideRuns>>

\* pool.execute for the next file of the chunk (main.rs 491-550)
Dispatch(r) ==
  /\ run[r].pc = "dispatch"
  /\ run' = [run EXCEPT ![r] =
               [@ EXCEPT !.next = @ + 1, !.queued = @ + 1,
                         !.pc = IF run[r].next + 1 = run[r].chunk_end
                                  THEN "join" ELSE "dispatch"]]
  /\ UNCHANGED <<cancel_map, cancel_flag, pool, outsideRuns>>

\* pool.join returns when no job is queued or active (main.rs 552); the
\* supervisor goes on to the next chunk or to "end"
PoolJoin(r) ==
  /\ run[r].pc = "join"
  /\ run[r].queued = 0
  /\ Active(r) = 0
  /\ run' = [run EXCEPT ![r] =
               IF run[r].next = run[r].total THEN [@ EXCEPT !.pc = "end"]
               ELSE [@ EXCEPT !.pc = "dispatch",
                              !.chunk_end =
                                Min(run[r].next
                                      + EffectiveBatch(run[r].batch_size,
                                                       run[r].total),
                                    run[r].total)]]
  /\ UNCHANGED <<cancel_map, cancel_flag, pool, outsideRuns>>

\* the supervisor sends progress "end" (main.rs 555-559)
End(r) ==
  /\ run[r].pc = "end"
  /\ run' = [run EXCEPT ![r].pc = "finished"]
  /\ UNCHANGED <<cancel_map, cancel_flag, pool, outsideRuns>>

\* a waiting thread of the pool takes a queued job
Take(r) ==
  /\ Active(r) < PoolSize(run[r].maxWorkers)
  /\ run[r].queued > 0
  /\ run' = [run EXCEPT ![r].queued = @ - 1]
  /\ pool' = [pool EXCEPT ![r].check = @ + 1]
  /\ UNCHANGED <<cancel_map, cancel_flag, outsideRuns>>

\* the worker closure reads the flag and returns if it is set (main.rs 505-507)
Check(r) ==
  /\ pool[r].check > 0
  /\ pool' = [pool EXCEPT ![r] =
                IF Cancelled(cancel_flag[r]) THEN [@ EXCEPT !.check = @ - 1]
                ELSE [@ EXCEPT !.check = @ - 1, !.analyze = @ + 1]]
  /\ UNCHANGED <<cancel_map, cancel_flag, run, outsideRuns>>

\* analyze_file returns (an error is logged and gives no diagnostics) and the
\* file URI is built; without a URI the closure returns (main.rs 509-530)
Analyze(r, uriOk) ==
  /\ pool[r].analyze > 0
  /\ pool' = [pool EXCEPT ![r] =
                IF uriOk THEN [@ EXCEPT !.analyze = @ - 1, !.publish = @ + 1]
                ELSE [@ EXCEPT !.analyze = @ - 1]]
  /\ UNCHANGED <<cancel_map, cancel_flag, run, outsideRuns>>

\* throttle_publish and publishDiagnostics (main.rs 532-537)
Publish(r) ==
  /\ pool[r].publish > 0
  /\ pool' = [pool EXCEPT ![r] = [@ EXCEPT !.publish = @ - 1, !.count = @ + 1]]
  /\ UNCHANGED <<cancel_map, cancel_flag, run, outsideRuns>>

\* done.fetch_add and the progress report (main.rs 539-548); the closure ends
Count(r) ==
  /\ pool[r].count > 0
  /\ pool' = [pool EXCEPT ![r].count = @ - 1]
  /\ UNCHANGED <<cancel_map, cancel_flag, run, outsideRuns>>

\* history: the runs a cancel request has reached, the workers that returned
\* at the flag, the publications after the request
Reaches(id) ==
  /\ reached' = [r \in Runs |-> reached[r] \/ r \in CancelTargets(id)]
  /\ UNCHANGED <<skipped, after>>

Skips(r) ==
  /\ skipped' = [skipped EXCEPT ![r] = @ \/ Cancelled(cancel_flag[r])]
  /\ UNCHANGED <<reached, after>>

PublishesAfter(r) ==
  /\ after' = [after EXCEPT ![r] = IF reached[r] THEN @ + 1 ELSE @]
  /\ UNCHANGED <<reached, skipped>>

history == <<reached, skipped, after>>

SupervisorStep(r) ==
  (Begin(r) \/ Files(r) \/ Dispatch(r) \/ PoolJoin(r) \/ End(r))
  /\ UNCHANGED history

WorkerStep(r) ==
  \/ (Take(r) \/ Count(r)) /\ UNCHANGED history
  \/ Check(r) /\ Skips(r)
  \/ \E uriOk \in BOOLEAN : Analyze(r, uriOk) /\ UNCHANGED history
  \/ Publish(r) /\ PublishesAfter(r)

\* what a cancel request may hold as runId
CancelIds == RunIds \cup {"*", "unknown", NoRunId}

NextRun ==
  \/ \E maxWorkers \in 0..MaxWorkers :
       /\ run[1].pc = "none"
       /\ Initialize(TRUE, Some([DefaultSettings EXCEPT
                                   !.maxWorkers = maxWorkers]))
       /\ UNCHANGED <<calls, writes, rest>>
  \/ \E r \in Runs, id \in RunIds, total \in 0..MaxFiles,
        batch_size \in 0..MaxBatch, database \in {"ok", "missing"} :
       /\ r = 1 => id = "p1"
       /\ StartProject(r, id, total, batch_size, database)
       /\ UNCHANGED history
  \/ \E id \in CancelIds : Cancel(id) /\ Reaches(id)
  \/ \E r \in Runs : Begin(r) /\ UNCHANGED history
  \/ \E r \in Runs : Files(r) /\ UNCHANGED history
  \/ \E r \in Runs : Dispatch(r) /\ UNCHANGED history
  \/ \E r \in Runs : PoolJoin(r) /\ UNCHANGED history
  \/ \E r \in Runs : End(r) /\ UNCHANGED history
  \/ \E r \in Runs : Take(r) /\ UNCHANGED history
  \/ \E r \in Runs : Check(r) /\ Skips(r)
  \/ \E r \in Runs, uriOk \in BOOLEAN : Analyze(r, uriOk) /\ UNCHANGED history
  \/ \E r \in Runs : Publish(r) /\ PublishesAfter(r)
  \/ \E r \in Runs : Count(r) /\ UNCHANGED history

InitRun == InitDaemon /\ varied = "file"

SpecRun == InitRun /\ [][NextRun]_vars

\* the supervisor and the pool threads are scheduled, and the analyzer returns
SpecRunFair ==
  /\ SpecRun
  /\ \A r \in Runs : WF_vars(SupervisorStep(r))
  /\ \A r \in Runs : WF_vars(WorkerStep(r))

(***************************************************************************)
(* Claims on cancellation (C5, C6), under SpecRun and SpecRunFair.  A      *)
(* cancel request reaches the run whose flag the run map holds under the   *)
(* run id it names (every registered run for "*").                         *)
(***************************************************************************)
\* the pool threads of run r that are analysing or about to publish
Working(r) == pool[r].analyze + pool[r].publish

\* C5: cancellation is monotonic: a cancel request that has returned has set
\* the flag of the run it reached, a set flag is never cleared, and from then
\* on no worker of that run that checks the flag starts an analysis or
\* publishes (the number of workers past the check never grows).
C5_CancellationMonotonic ==
  [][\A r \in Runs :
       /\ reached[r] => cancel_flag[r]
       /\ cancel_flag[r] => cancel_flag'[r]
       /\ reached[r] => Working(r)' <= Working(r)]_vars

\* a worker of a cancelled run has returned at the flag while another, past
\* the check, is still at work
C5_Witness ==
  \E r \in Runs : reached[r] /\ skipped[r] /\ Working(r) > 0

\* the run is past its preamble: it has a file list and feeds its pool
Dispatching(r) == run[r].pc \in {"dispatch", "join", "end"}

\* C6: after a cancel request has reached a run that is dispatching files, at
\* most max(maxWorkers, 1) further publishDiagnostics of the run are sent, and
\* the run still sends "end".
C6_BoundedPublicationsThenEnd ==
  /\ [](\A r \in Runs :
          after[r] <= IF run[r].maxWorkers > 1 THEN run[r].maxWorkers ELSE 1)
  /\ \A r \in Runs :
       (reached[r] /\ Dispatching(r)) ~> (run[r].pc = "finished")

\* a cancelled run has ended after one more publication, one file skipped
C6_Witness ==
  \E r \in Runs :
    /\ reached[r] /\ skipped[r]
    /\ after[r] = 1
    /\ run[r].pc = "finished"

(***************************************************************************)
(* Claim on the cancel request (C15), under SpecRun.                       *)
(***************************************************************************)
\* the runs registered in the run map
Registered == {cancel_map[i] : i \in RunIds} \ {0}

\* C15: cancel with "*" sets the flag of every run registered in the run map,
\* with another runId the flag registered under it and no other, with an
\* unknown or absent runId none; the flags that are set are those that cancel
\* requests have set; no request removes an entry of the map or clears a flag,
\* and a run that has sent "end" is not moved by a cancel.
C15_CancelSetsRegisteredFlags ==
  /\ [](/\ CancelTargets("*") = Registered
        /\ \A id \in RunIds :
             CancelTargets(id) = IF cancel_map[id] # 0 THEN {cancel_map[id]}
                                 ELSE {}
        /\ CancelTargets("unknown") = {}
        /\ CancelTargets(NoRunId) = {}
        /\ \A r \in Runs : cancel_flag[r] = reached[r])
  /\ [][/\ \A id \in RunIds : cancel_map[id] # 0 => cancel_map'[id] # 0
        /\ \A r \in Runs : cancel_flag[r] => cancel_flag'[r]
        /\ \A r \in Runs :
             (run[r].pc = "finished" /\ Active(r) = 0)
               => (run'[r] = run[r] /\ pool'[r] = pool[r])]_vars

\* two runs are registered, cancel has set the flag of the first alone, and
\* the first had ended
C15_Witness ==
  /\ Registered = {1, 2}
  /\ cancel_flag[1] /\ ~cancel_flag[2]
  /\ run[1].pc = "finished" /\ after[1] = 0 /\ ~skipped[1]
  /\ run[2].pc \in {"dispatch", "join"}

\* C13 as stated: every run that analyzeProject starts sends "end" after its
\* "begin", on every path, the compile database errors included.
C13_AsStated ==
  \A r \in Runs : (run[r].pc # "none") ~> (run[r].pc = "finished")

(***************************************************************************)
(* SpecIncr: one project run followed file by file, from the resolved list *)
(* through the incremental filter to the publications, after analyzeFile   *)
(* calls and edits of the file have filled the cache tiers.  The cache     *)
(* tiers do not change once the run has started.                           *)
(***************************************************************************)
outsideProj == <<calls, writes, runs, loop, req, call>>

\* the paths a resolved list may hold: files of the project, and a relative
\* path given raw in the files parameter (main.rs 437-451)
ListedPaths == {FilePath, OtherPath, "a.cc"}
Lists == UNION {[1..n -> ListedPaths] : n \in 0..MaxList}

\* file_signature: /p/other.cc is never edited, a.cc does not exist
file_signature(path) ==
  IF path = FilePath THEN fileSig
  ELSE IF path = OtherPath THEN Some(<<1, 10>>)
  ELSE None

\* cache.get(file_path)
MemoryEntry(path) == IF path \in DOMAIN cache THEN cache[path] ELSE None

\* is_cached (main.rs 1327-1345): a memory entry decides alone; without one
\* the disk tier is asked whether a file of the expected name exists
is_cached(file_path, settings_hash, cache_dir) ==
  LET sig == file_signature(file_path)
      entry == MemoryEntry(file_path)
  IN IF sig = None THEN FALSE
     ELSE IF entry # None
            THEN /\ entry[1].mtime = sig[1][1]
                 /\ entry[1].size = sig[1][2]
                 /\ entry[1].settings_hash = settings_hash
     ELSE IF cache_dir # None
            THEN \E f \in disk[cache_dir[1]] :
                   f.name = cache_file_name(cache_key_for_path(file_path),
                                            sig[1][1], sig[1][2], settings_hash)
     ELSE FALSE

\* a filter that keeps every file
retain_all(incremental, cached) == [i \in 1..Len(cached) |-> i]

\* files.retain(..) under incremental (main.rs 466-473): the positions of the
\* list that stay, in order
retain(incremental, cached) ==
  LET Stays(i) == ~(incremental /\ cached[i])
  IN SelectSeq([i \in 1..Len(cached) |-> i], Stays)

\* the positions held by a sequence of positions
Range(s) == {s[k] : k \in 1..Len(s)}

\* the closures of the run that a pool thread is running
Running == {i \in 1..Len(proj.st) :
              proj.st[i] \in {"check", "analyze", "publish", "count"}}

\* handle_request "analyzeProject" (main.rs 390-417, 562): given is the files
\* parameter, None when absent
StartIncr(given, mode, incremental, batch_size) ==
  /\ proj.pc = "none"
  /\ job["dispatcher"].pc = "idle"
  /\ LET cc == resolve_compile_commands_path(settings, root_dir, compile_commands)
         got == IF cc = None THEN [ok |-> FALSE, index |-> None,
                                   stored |-> compile_index]
                ELSE get_compile_index(cc[1], compile_index)
     IN /\ compile_commands' = CachedPathAfter(settings, root_dir, compile_commands)
        /\ compile_index' = got.stored
        /\ proj' = [NoProj EXCEPT
                      !.pc = "begin", !.mode = mode,
                      !.incremental = incremental,
                      !.batch_size = batch_size, !.settings = settings,
                      !.root = root_dir, !.cc = cc,
                      !.files = IF given # None THEN given[1]
                                ELSE IF got.index # None
                                       THEN got.index[1].files
                                ELSE <<>>,
                      \* without an index load_project_files reads the
                      \* database that get_compile_index could not load
                      !.loaded = (given # None \/ got.index # None)]
  /\ UNCHANGED <<settings, root_dir, cache, disk, job, env, outsideProj>>

\* handle_request "cancel" with the run's id or "*" (main.rs 564-576)
CancelIncr ==
  /\ proj.pc # "none"
  /\ proj' = [proj EXCEPT !.flag = TRUE]
  /\ UNCHANGED <<daemon, env, outsideProj>>

\* progress "begin" (main.rs 420-424)
RunBegin ==
  /\ proj.pc = "begin"
  /\ proj' = [proj EXCEPT !.pc = "files"]
  /\ UNCHANGED <<daemon, env, outsideProj>>

\* the file list, the incremental filter and the empty list (main.rs 426-483)
RunFiles ==
  /\ proj.pc = "files"
  /\ IF proj.cc = None \/ ~proj.loaded
       THEN proj' = [proj EXCEPT !.pc = "aborted"]
     ELSE
       LET compile_dir == Some(Parent(proj.cc[1]))
           settings_hash ==
             settings_fingerprint(proj.settings, proj.cc,
                                  mtime_for_path(proj.cc[1]),
                                  clang_tidy_config_mtime(proj.root, compile_dir),
                                  proj.mode)
           cache_dir == resolve_cache_dir(proj.settings, proj.root, compile_dir)
           cached == [i \in 1..Len(proj.files) |->
                        is_cached(proj.files[i], settings_hash, cache_dir)]
           order == retain(proj.incremental, cached)
           total == Len(order)
       IN proj' = [proj EXCEPT
                     !.cached = cached, !.order = order,
                     !.st = [i \in 1..Len(proj.files) |->
                               IF i \in Range(order) THEN "kept"
                               ELSE "filtered"],
                     !.pubs = [i \in 1..Len(proj.files) |-> 0],
                     !.logs = [i \in 1..Len(proj.files) |-> 0],
                     !.diags = [i \in 1..Len(proj.files) |-> "none"],
                     !.chunk_end =
                       Min(EffectiveBatch(proj.batch_size, total), total),
                     !.pc = IF total = 0 THEN "finished" ELSE "dispatch",
                     !.message =
                       IF total # 0 THEN "none"
                       ELSE IF proj.incremental
                              THEN "No changed files to analyze"
                       ELSE "No files found in compile_commands.json"]
  /\ UNCHANGED <<daemon, env, outsideProj>>

\* a supervisor that sends "end" without joining the pool after the last chunk
RunDispatch_no_last_join ==
  /\ proj.pc = "dispatch"
  /\ proj' = [proj EXCEPT
                !.st[proj.order[proj.next + 1]] = "queued",
                !.next = @ + 1,
                !.pc = IF proj.next + 1 = Len(proj.order) THEN "end"
                       ELSE IF proj.next + 1 = proj.chunk_end THEN "join"
                       ELSE "dispatch"]
  /\ UNCHANGED <<daemon, env, outsideProj>>

\* pool.execute for the next file of the chunk (main.rs 491-550)
RunDispatch ==
  /\ proj.pc = "dispatch"
  /\ proj' = [proj EXCEPT
                !.st[proj.order[proj.next + 1]] = "queued",
                !.next = @ + 1,
                !.pc = IF proj.next + 1 = proj.chunk_end THEN "join"
                       ELSE "dispatch"]
  /\ UNCHANGED <<daemon, env, outsideProj>>

\* a supervisor that does not wait for the pool between two chunks
RunJoin_no_wait ==
  /\ proj.pc = "join"
  /\ \/ proj.next < Len(proj.order)
     \/ /\ Running = {}
        /\ \A i \in 1..Len(proj.st) : proj.st[i] # "queued"
  /\ proj' = IF proj.next = Len(proj.order)
               THEN [proj EXCEPT !.pc = "end"]
             ELSE [proj EXCEPT
                     !.pc = "dispatch",
                     !.chunk_end =
                       Min(proj.next + EffectiveBatch(proj.batch_size,
                                                      Len(proj.order)),
                           Len(proj.order))]
  /\ UNCHANGED <<daemon, env, outsideProj>>

\* pool.join (main.rs 552), then the next chunk or "end"
RunJoin ==
  /\ proj.pc = "join"
  /\ Running = {}
  /\ \A i \in 1..Len(proj.st) : proj.st[i] # "queued"
  /\ proj' = IF proj.next = Len(proj.order)
               THEN [proj EXCEPT !.pc = "end"]
             ELSE [proj EXCEPT
                     !.pc = "dispatch",
                     !.chunk_end =
                       Min(proj.next + EffectiveBatch(proj.batch_size,
                                                      Len(proj.order)),
                           Len(proj.order))]
  /\ UNCHANGED <<daemon, env, outsideProj>>

\* progress "end" (main.rs 555-559)
RunEnd ==
  /\ proj.pc = "end"
  /\ proj' = [proj EXCEPT !.pc = "finished",
                          !.message = "Project analysis completed"]
  /\ UNCHANGED <<daemon, env, outsideProj>>

\* a pool that starts a thread for every queued job
FileTake_unbounded(i) ==
  /\ i \in 1..Len(proj.st)
  /\ proj.st[i] = "queued"
  /\ proj' = [proj EXCEPT !.st[i] = "check"]
  /\ UNCHANGED <<daemon, env, outsideProj>>

\* a waiting pool thread takes the job queued first
FileTake(i) ==
  /\ i \in 1..Len(proj.st)
  /\ proj.st[i] = "queued"
  /\ \A k \in 1..Len(proj.st) : proj.st[k] = "queued" => i <= k
  /\ Cardinality(Running) < PoolSize(proj.settings.maxWorkers)
  /\ proj' = [proj EXCEPT !.st[i] = "check"]
  /\ UNCHANGED <<daemon, env, outsideProj>>

\* the closure reads the flag (main.rs 505-507)
FileCheck(i) ==
  /\ i \in 1..Len(proj.st)
  /\ proj.st[i] = "check"
  /\ proj' = [proj EXCEPT !.st[i] = IF Cancelled(proj.flag) THEN "skipped"
                                    ELSE "analyze"]
  /\ UNCHANGED <<daemon, env, outsideProj>>

\* an error branch that sends no log notification
FileLogs_none(ok) == 0

\* the log notifications of the match on analyze_file's result (main.rs
\* 516-525)
FileLogs(ok) == IF ok THEN 0 ELSE 1

\* analyze_file returns, with diagnostics (ok) or with an error that is logged
\* and stands for Vec::new(); Url::from_file_path fails on a path that is not
\* absolute and the closure returns (main.rs 509-530)
FileAnalyze(i, ok) ==
  /\ i \in 1..Len(proj.st)
  /\ proj.st[i] = "analyze"
  /\ proj' = [proj EXCEPT !.st[i] = IF IsAbsolute(proj.files[i]) THEN "publish"
                                    ELSE "nouri",
                          !.logs[i] = @ + FileLogs(ok),
                          !.diags[i] = IF ok THEN "result" ELSE "empty"]
  /\ UNCHANGED <<daemon, env, outsideProj>>

\* publishDiagnostics (main.rs 532-537)
FilePublish(i) ==
  /\ i \in 1..Len(proj.st)
  /\ proj.st[i] = "publish"
  /\ proj' = [proj EXCEPT !.st[i] = "count", !.pubs[i] = @ + 1]
  /\ UNCHANGED <<daemon, env, outsideProj>>

\* 2^k
RECURSIVE TwoTo(_)
TwoTo(k) == IF k = 0 THEN 1 ELSE 2 * TwoTo(k - 1)

\* whether the worker that obtained finished sends a report (main.rs 541)
Reports(finished, total) == finished = total \/ finished % 10 = 0

\* done.fetch_add and the progress report (main.rs 539-548)
FileCount(i) ==
  /\ i \in 1..Len(proj.st)
  /\ proj.st[i] = "count"
  /\ LET finished == proj.done + 1
     IN proj' = [proj EXCEPT
                   !.st[i] = "done", !.done = finished,
                   !.reports = IF Reports(finished, Len(proj.order))
                                 THEN @ + 1 ELSE @]
  /\ UNCHANGED <<daemon, env, outsideProj>>

SupervisorIncr == RunBegin \/ RunFiles \/ RunDispatch \/ RunJoin \/ RunEnd

WorkerIncr ==
  \E i \in 1..MaxList :
    \/ FileTake(i) \/ FileCheck(i) \/ FilePublish(i) \/ FileCount(i)
    \/ FileAnalyze(i, TRUE)

NotStarted == proj.pc = "none"

NextIncr ==
  \/ \E disk_on \in BOOLEAN, maxWorkers \in {0, MaxWorkers} :
       \* the client initializes once, before its first request
       /\ NotStarted /\ root_dir = None
       /\ Initialize(TRUE, Some([DefaultSettings EXCEPT
                                   !.daemonCacheOnDisk = disk_on,
                                   !.maxWorkers = maxWorkers]))
       /\ UNCHANGED <<calls, writes, rest>>
  \/ NotStarted /\ AnalyzeFile("full", FALSE) /\ UNCHANGED <<calls, writes, rest>>
  \/ Lookup("dispatcher") /\ UNCHANGED <<calls, writes, rest>>
  \/ \E outcome \in RunOutcomesConc :
       Run("dispatcher", outcome) /\ UNCHANGED <<calls, writes, rest>>
  \/ Persist("dispatcher", TRUE) /\ UNCHANGED <<calls, writes, rest>>
  \/ Evict("dispatcher", Victims("dispatcher")) /\ UNCHANGED <<calls, writes, rest>>
  \/ Written("dispatcher") /\ UNCHANGED <<calls, writes, rest>>
  \/ Respond /\ UNCHANGED <<calls, writes, rest>>
  \/ \E sig \in FileStatesConc :
       NotStarted /\ Idle /\ ModifyFile(sig) /\ UNCHANGED <<calls, writes, rest>>
  \/ \E given \in {None} \cup {Some(l) : l \in Lists}, incremental \in BOOLEAN,
        batch_size \in 0..MaxBatch :
       StartIncr(given, "full", incremental, batch_size)
  \/ CancelIncr
  \/ RunBegin
  \/ RunFiles
  \/ RunDispatch
  \/ RunJoin
  \/ RunEnd
  \/ \E i \in 1..MaxList : FileTake(i)
  \/ \E i \in 1..MaxList : FileCheck(i)
  \/ \E i \in 1..MaxList : FileAnalyze(i, TRUE)
  \/ \E i \in 1..MaxList : FilePublish(i)
  \/ \E i \in 1..MaxList : FileCount(i)

InitIncr == InitDaemon /\ varied = "file"

SpecIncr == InitIncr /\ [][NextIncr]_vars

\* the supervisor and the pool threads are scheduled, and the analyzer returns
SpecIncrFair ==
  /\ SpecIncr
  /\ WF_vars(SupervisorIncr)
  /\ WF_vars(WorkerIncr)

(***************************************************************************)
(* Claim on the incremental filter (C14), under SpecIncrFair.              *)
(***************************************************************************)
\* the run has sent "end" and no cancel request has reached it
EndedUncancelled == proj.pc = "finished" /\ ~proj.flag

\* every file of the list is reported as cached
AllCached ==
  /\ proj.incremental
  /\ \A i \in 1..Len(proj.files) : proj.cached[i]

PoolLists == UNION {[1..n -> ListedPaths] : n \in 1..MaxPoolFiles}

WorkerPool ==
  \E i \in 1..MaxPoolFiles :
    \/ FileTake(i) \/ FileCheck(i) \/ FilePublish(i) \/ FileCount(i)
    \/ \E ok \in BOOLEAN : FileAnalyze(i, ok)

NextPool ==
  \/ \E maxWorkers \in 0..MaxWorkers :
       /\ NotStarted /\ root_dir = None
       /\ Initialize(TRUE, Some([DefaultSettings EXCEPT
                                   !.maxWorkers = maxWorkers]))
       /\ UNCHANGED <<calls, writes, rest>>
  \/ \E l \in PoolLists, batch_size \in 0..MaxPoolBatch :
       StartIncr(Some(l), "full", FALSE, batch_size)
  \/ CancelIncr
  \/ RunBegin
  \/ RunFiles
  \/ RunDispatch
  \/ RunJoin
  \/ RunEnd
  \/ \E i \in 1..MaxPoolFiles : FileTake(i)
  \/ \E i \in 1..MaxPoolFiles : FileCheck(i)
  \/ \E i \in 1..MaxPoolFiles, ok \in BOOLEAN : FileAnalyze(i, ok)
  \/ \E i \in 1..MaxPoolFiles : FilePublish(i)
  \/ \E i \in 1..MaxPoolFiles : FileCount(i)

InitPool == InitDaemon /\ varied = "file"

SpecPool == InitPool /\ [][NextPool]_vars

\* the supervisor and the pool threads are scheduled, and the analyzer returns
SpecPoolFair ==
  /\ SpecPool
  /\ WF_vars(SupervisorIncr)
  /\ WF_vars(WorkerPool)

(***************************************************************************)
(* Claims on the chunks and the pool (C21, C22), under SpecPool.           *)
(***************************************************************************)
\* the chunk of the k-th file of the filtered list, counted from 0
ChunkOf(k) == IF proj.batch_size = 0 THEN 0 ELSE (k - 1) \div proj.batch_size

\* the closure of the file at position i has been handed to the pool
FileDispatched(i) == proj.st[i] \notin {"kept", "filtered"}

\* a pool thread has started the closure of the file at position i
WorkerStarted(i) == proj.st[i] \notin {"kept", "filtered", "queued"}

\* the closure of the file at position i has returned
WorkerFinished(i) == proj.st[i] \in {"done", "skipped", "nouri"}

\* C21: with batchSize = b > 0 the filtered list is split into consecutive
\* chunks of b files (the last may be shorter) and with batchSize = 0 it is a
\* single chunk: the supervisor waits at pool.join only with a whole chunk
\* dispatched, and no file of a later chunk is dispatched, let alone started
\* by a worker, before every worker of the earlier chunks has finished.
C21_BatchBarrier ==
  proj.pc \in {"dispatch", "join", "end", "finished"} =>
    /\ \A a, b \in 1..Len(proj.order) :
         (ChunkOf(a) < ChunkOf(b) /\ FileDispatched(proj.order[b]))
           => WorkerFinished(proj.order[a])
    /\ proj.pc = "join" =>
         \/ proj.next = Len(proj.order)
         \/ proj.batch_size > 0 /\ proj.next % proj.batch_size = 0
    /\ \A a \in 1..Len(proj.order) :
         (proj.pc = "join" /\ a <= proj.next) => FileDispatched(proj.order[a])

\* three files in chunks of two on a pool of two threads: the third is being
\* analysed after the first two were analysed and counted
C21_Witness ==
  /\ proj.batch_size = 2
  /\ proj.settings.maxWorkers = 2
  /\ proj.st = <<"done", "done", "analyze">>

\* C22: at every moment at most max(maxWorkers, 1) closures of the run are
\* being run by pool threads, hence at most that many file analyses are in
\* progress, whatever the batch size and the number of files.
C22_AtMostPoolSizeAnalyses ==
  LET limit == IF proj.settings.maxWorkers > 1 THEN proj.settings.maxWorkers
               ELSE 1
  IN /\ Cardinality(Running) <= limit
     /\ Cardinality({i \in 1..Len(proj.st) : proj.st[i] = "analyze"}) <= limit

\* maxWorkers = 0: one file is being analysed while two wait in the queue of
\* a single chunk
C22_Witness ==
  /\ proj.settings.maxWorkers = 0
  /\ proj.batch_size = 0
  /\ proj.st = <<"analyze", "queued", "queued">>

(***************************************************************************)
(* Claims on the notifications of a run (C23, C24), under SpecPool and     *)
(* SpecPoolFair.                                                           *)
(***************************************************************************)
\* the worker of the file at position i has found the flag unset
PassedCheck(i) == proj.st[i] \in {"analyze", "publish", "count", "done", "nouri"}

\* the worker of the file at position i holds the outcome of analyze_file
HoldsOutcome(i) == proj.st[i] \in {"publish", "count", "done", "nouri"}

\* the list has a file with an absolute path at position i and its worker has
\* found the flag unset
ToPublish(i) ==
  IF i <= Len(proj.st) THEN PassedCheck(i) /\ IsAbsolute(proj.files[i])
  ELSE FALSE

\* the file at position i has been counted
Counted(i) == IF i <= Len(proj.st) THEN proj.st[i] = "done" ELSE FALSE

C24_BeginFirstEndLast ==
  /\ [](proj.pc \in {"none", "begin"}
          => /\ proj.reports = 0
             /\ \A i \in 1..Len(proj.pubs) : proj.pubs[i] = 0)
  /\ [](proj.pc \in {"end", "finished"}
          => /\ Running = {}
             /\ \A i \in 1..Len(proj.st) : proj.st[i] # "queued")
  /\ [][proj.pc = "finished"
          => proj.pubs' = proj.pubs /\ proj.reports' = proj.reports]_vars

\* "end" has been emitted after three publications in two chunks and the
\* report of the last file
C24_Witness ==
  /\ proj.pc = "finished"
  /\ proj.message = "Project analysis completed"
  /\ proj.batch_size = 2
  /\ proj.pubs = <<1, 1, 1>>
  /\ proj.reports = 1

(***************************************************************************)
(* Claims on the index membership test and the unsaved-buffer path (C9,    *)
(* C10), under SpecFile.                                                   *)
(***************************************************************************)
\* the call the dispatcher is about to answer was made on a file that the
\* loaded index does not hold
AbsentFromIndex(j) ==
  j.index # None /\ ~file_in_index(FilePath, j.index[1])

\* C9: when the handler holds a loaded index and the file is not a member of
\* it, analyzeFile answers at once with no diagnostics, without invoking the
\* analyzer and without touching either cache tier, fileContent given or not.
C9_NotInIndexAnswersEmpty ==
  [][(/\ job["dispatcher"].pc = "idle"
      /\ job'["dispatcher"].pc # "idle"
      /\ AbsentFromIndex(job'["dispatcher"]))
     => /\ job'["dispatcher"].pc = "respond"
        /\ job'["dispatcher"].ok
        /\ job'["dispatcher"].result = <<>>
        /\ ~job'["dispatcher"].invoked
        /\ job'["dispatcher"].source \notin {"memory", "disk", "analyzer",
                                             "unsaved"}
        /\ cache' = cache
        /\ disk' = disk]_vars

\* a call with fileContent answered so while the memory tier holds an entry
C9_Witness ==
  /\ job["dispatcher"].pc = "respond"
  /\ AbsentFromIndex(job["dispatcher"])
  /\ job["dispatcher"].content
  /\ cache[FilePath] # None

C11_AsStated ==
  (/\ job["dispatcher"].pc = "respond"
   /\ job["dispatcher"].fallback
   /\ job["dispatcher"].failed)
  => ~job["dispatcher"].ok

(***************************************************************************)
(* SpecUnsaved: SpecFile with a record of what AppState held when the      *)
(* latest analyzeFile call began, kept while the call that followed was    *)
(* served by the unsaved-buffer path.                                      *)
(***************************************************************************)
InitUnsaved == InitDaemon /\ varied = "compileDb"

\* handle_request "analyzeFile" is entered
CallBegins ==
  /\ before' = [served |-> FALSE,
                held |-> <<compile_commands, compile_index, cache, disk>>]
  /\ UNCHANGED <<prev, changed, writes, rest>>

\* the response is written: the record is kept for a call that the
\* unsaved-buffer path served
CallEnds ==
  /\ before' = IF job["dispatcher"].source = "unsaved"
                 THEN [before EXCEPT !.served = TRUE]
               ELSE NoBefore
  /\ UNCHANGED <<prev, changed, writes, rest>>

\* initialize drops the database path and the index, whatever they were
Forgets ==
  /\ before' = NoBefore
  /\ UNCHANGED <<prev, changed, writes, rest>>

NextUnsaved ==
  \/ \E content \in BOOLEAN : AnalyzeFile("full", content) /\ CallBegins
  \/ \E outcome \in {Failure("io")} \cup Analyzed :
       Unsaved(outcome) /\ UNCHANGED <<calls, writes, rest>>
  \/ Lookup("dispatcher") /\ UNCHANGED <<calls, writes, rest>>
  \/ \E outcome \in RunOutcomes :
       Run("dispatcher", outcome) /\ UNCHANGED <<calls, writes, rest>>
  \/ \E written \in BOOLEAN :
       Persist("dispatcher", written) /\ UNCHANGED <<calls, writes, rest>>
  \/ Evict("dispatcher", Victims("dispatcher")) /\ UNCHANGED <<calls, writes, rest>>
  \/ Written("dispatcher") /\ UNCHANGED <<calls, writes, rest>>
  \/ Respond /\ CallEnds
  \/ \E rootOk \in BOOLEAN, given \in {None} \cup {Some(s) : s \in SettingsChoices("compileDb")} :
       Initialize(rootOk, given) /\ Forgets
  \/ \E d \in DbStates : Idle /\ ModifyDb(d) /\ UNCHANGED <<calls, writes, rest>>

SpecUnsaved == InitUnsaved /\ [][NextUnsaved]_vars

\* how handle_request would serve an analyzeFile call without fileContent
\* made now, were the database path and the index of AppState the given ones:
\* the database path it resolves and what it does once it holds the index
\* (main.rs 327-351)
ServedNext(cached, index) ==
  LET cc == resolve_compile_commands_path(settings, root_dir, cached)
      got == IF cc = None THEN [ok |-> FALSE, index |-> None, stored |-> index]
             ELSE get_compile_index(cc[1], index)
  IN <<cc, AfterIndex(got.index, FALSE)>>

\* the latest analyzeFile call was served by the unsaved-buffer path and no
\* request was read since
AfterUnsaved == before.served /\ Idle

\* C12 as stated: a call served by the unsaved-buffer path leaves both cache
\* tiers unchanged, so that a later on-disk analyzeFile of the file is served
\* exactly as it would have been without the unsaved call.
C12_AsStated ==
  AfterUnsaved
  => /\ cache = before.held[3]
     /\ disk = before.held[4]
     /\ ServedNext(compile_commands, compile_index)
          = ServedNext(before.held[1], before.held[2])

\* C12: a call served by the unsaved-buffer path leaves the memory tier and
\* the disk tier unchanged; a later on-disk analyzeFile is served as it would
\* have been without that call unless the index the call stored no longer
\* agrees with the database on whether the file is a member.
C12_UnsavedLeavesTiersUnchanged ==
  AfterUnsaved
  => /\ cache = before.held[3]
     /\ disk = before.held[4]
     /\ \/ ServedNext(compile_commands, compile_index)
             = ServedNext(before.held[1], before.held[2])
        \/ /\ compile_index # None
           /\ compile_index # before.held[2]
           /\ get_compile_index(compile_index[1].path, None).index # compile_index

\* an unsaved call was served while the memory tier held an entry
C12_Witness ==
  /\ AfterUnsaved
  /\ cache[FilePath] # None
  /\ ServedNext(compile_commands, compile_index)
       = ServedNext(before.held[1], before.held[2])

(***************************************************************************)
(* SpecSettings: initialize and configChanged with a settings member that  *)
(* is absent, does not deserialize or holds settings, between analyzeFile  *)
(* calls and project runs that fill the state the requests are to leave    *)
(* alone or to invalidate.                                                 *)
(***************************************************************************)
SentSettings ==
  {NoSettings, BadSettings}
  \cup {[kind |-> "settings", value |-> s] : s \in SettingsChoices("maxWorkers")}

\* a deserializer that takes a value it cannot read for the default settings
from_value_lenient(sent) ==
  IF sent.kind = "absent" THEN None ELSE Some(sent.value)

\* params.get("settings") and serde_json::from_value::<Settings> (main.rs
\* 302-303, 583-584): Some(settings) when the member is there and
\* deserializes
from_value(sent) == IF sent.kind = "settings" THEN Some(sent.value) ELSE None

\* the request is on record
Handled(method, sent) ==
  /\ req' = [n |-> 1 - req.n, method |-> method, sent |-> sent]
  /\ UNCHANGED <<calls, writes, runs, loop, proj, call>>

InitSettings == InitDaemon /\ varied = "maxWorkers"

NextSettings ==
  \/ \E rootOk \in BOOLEAN, sent \in SentSettings :
       Initialize(rootOk, from_value(sent)) /\ Handled("initialize", sent)
  \/ \E sent \in SentSettings :
       ConfigChanged(from_value(sent)) /\ Handled("configChanged", sent)
  \/ AnalyzeFile("full", FALSE) /\ UNCHANGED <<calls, writes, rest>>
  \/ Lookup("dispatcher") /\ UNCHANGED <<calls, writes, rest>>
  \/ \E outcome \in RunOutcomesConc :
       Run("dispatcher", outcome) /\ UNCHANGED <<calls, writes, rest>>
  \/ Respond /\ UNCHANGED <<calls, writes, rest>>
  \/ \E id \in RunIds :
       StartProject(1, id, 0, 0, "ok") /\ UNCHANGED history
  \/ Begin(1) /\ UNCHANGED history
  \/ Files(1) /\ UNCHANGED history

SpecSettings == InitSettings /\ [][NextSettings]_vars

(***************************************************************************)
(* Claim on the settings requests (C16), under SpecSettings.               *)
(***************************************************************************)
\* this step handles an initialize request or a configChanged notification
SettingsRequest == req'.n # req.n

\* C16 as stated: after every initialize request and every configChanged
\* notification that carries a settings value the stored settings are the new
\* ones and the database path and the index are absent; the memory cache and
\* the run map are unchanged.
C16_AsStated ==
  [][(SettingsRequest /\ req'.sent.kind # "absent")
       => /\ compile_commands' = None
          /\ compile_index' = None
          /\ req'.sent.kind = "settings" => settings' = req'.sent.value
          /\ cache' = cache
          /\ cancel_map' = cancel_map]_vars

\* C16: initialize always drops the cached database path and the index, and
\* stores the settings it carries when they deserialize; configChanged stores
\* the settings and drops path and index when it carries settings that
\* deserialize, and changes nothing otherwise; neither changes the memory
\* cache, the disk cache or the run map; the analysis that follows builds
\* the index from the database as it is then.
C16_SettingsRequestsInvalidate ==
  [][/\ SettingsRequest =>
          /\ cache' = cache /\ disk' = disk
          /\ cancel_map' = cancel_map /\ cancel_flag' = cancel_flag
          /\ settings' = IF req'.sent.kind = "settings" THEN req'.sent.value
                         ELSE settings
          /\ (req'.method = "initialize" \/ req'.sent.kind = "settings")
               => compile_commands' = None /\ compile_index' = None
          /\ (req'.method = "configChanged" /\ req'.sent.kind # "settings")
               => /\ compile_commands' = compile_commands
                  /\ compile_index' = compile_index
                  /\ root_dir' = root_dir
     /\ (compile_index = None /\ compile_index' # None)
          => compile_index'[1] =
               BuildIndex(compile_index'[1].path,
                          db[compile_index'[1].path].mtime,
                          db[compile_index'[1].path].entries)]_vars

\* configChanged with new settings has emptied the path and the index while
\* the memory cache holds an entry and the run map a run
C16_Witness ==
  /\ req.method = "configChanged"
  /\ req.sent.kind = "settings"
  /\ settings = req.sent.value
  /\ settings # DefaultSettings
  /\ compile_index = None /\ compile_commands = None
  /\ cache[FilePath] # None
  /\ Registered # {}
  /\ job["dispatcher"].pc = "idle"

(***************************************************************************)
(* SpecDispatch: the loop of main (main.rs 244-291).  One step reads one   *)
(* line and does with it all that the loop body does.  A handler is taken  *)
(* by its outcome here; what the handlers do to the daemon's state is the  *)
(* matter of the other specifications.                                     *)
(***************************************************************************)
outsideLoop == <<daemon, env, calls, writes, runs, proj, req, call>>

\* what a line holds once parsed: the method member (absent, not a string, or
\* the method named) and the id member (absent, or any JSON value)
Methods ==
  {"initialize", "analyzeFile", "analyzeProject", "cancel", "configChanged",
   "ping"}
Ids == {None, Some("1"), Some("null")}
Lines ==
  [kind : {"io_error", "empty", "malformed"}, method : {"absent"}, id : {None}]
  \cup [kind : {"json"}, method : Methods \cup {"absent", "not_string"}, id : Ids]

\* value.get("method").and_then(|m| m.as_str()) (main.rs 264)
MethodOf(line) ==
  IF line.method \in {"absent", "not_string"} THEN None ELSE Some(line.method)

\* a response that does not carry the id of the request
Response_without_id(id, handlerOk) ==
  IF handlerOk THEN [type |-> "result", id |-> None, code |-> 0]
  ELSE [type |-> "error", id |-> None, code |-> -32000]

\* JsonRpcResponse or JsonRpcErrorResponse for a handler's outcome (main.rs
\* 270-283)
Response(id, handlerOk) ==
  IF handlerOk THEN [type |-> "result", id |-> id, code |-> 0]
  ELSE [type |-> "error", id |-> id, code |-> -32000]

Log(level) == [type |-> level, id |-> None, code |-> 0]

\* the messages the loop body tries to write for a line (main.rs 245-288)
Writes(line, handlerOk) ==
  IF line.kind \in {"io_error", "empty"} THEN <<>>
  ELSE IF line.kind = "malformed" THEN <<Log("log error")>>
  ELSE IF MethodOf(line) = None THEN <<>>
  ELSE IF line.id # None THEN <<Response(line.id, handlerOk)>>
  ELSE IF MethodOf(line) = Some("configChanged") THEN <<Log("log info")>>
  ELSE <<>>

\* one iteration of the loop: handlerOk is the outcome of handle_request (only
\* analyzeFile returns errors), writeOk that of the write to stdout
ReadLine(line, handlerOk, writeOk) ==
  /\ status = "running"
  /\ lines < MaxLines
  /\ handlerOk \/ (MethodOf(line) = Some("analyzeFile") /\ line.id # None)
  /\ lines' = lines + 1
  /\ LET wrote == Writes(line, handlerOk)
     IN /\ last' = [kind |-> line.kind, method |-> line.method, id |-> line.id,
                    handled |-> IF MethodOf(line) = None \/ line.id = None
                                  THEN "none"
                                ELSE IF handlerOk THEN "ok" ELSE "err",
                    wrote |-> [i \in DOMAIN wrote |->
                                 [msg |-> wrote[i], ok |-> writeOk]]]
        /\ out' = IF writeOk THEN out \o wrote ELSE out
        \* write_json(..)? and send_notification(..)? return from main
        /\ status' = IF wrote # <<>> /\ ~writeOk THEN "failed" ELSE "running"
  /\ UNCHANGED outsideLoop

\* stdin is closed: the loop ends and main returns Ok (main.rs 244, 291)
StdinClosed ==
  /\ status = "running"
  /\ status' = "eof"
  /\ UNCHANGED <<lines, last, out, outsideLoop>>

NextDispatch ==
  \/ \E line \in Lines, handlerOk \in BOOLEAN, writeOk \in BOOLEAN :
       ReadLine(line, handlerOk, writeOk)
  \/ StdinClosed

InitDispatch == InitDaemon /\ varied = "file"

SpecDispatch == InitDispatch /\ [][NextDispatch]_vars

(***************************************************************************)
(* Claims on the dispatcher loop (C7, C8), under SpecDispatch.             *)
(***************************************************************************)
\* the responses among the messages the loop tried to write for the last line
ResponsesTried ==
  SelectSeq(last.wrote, LAMBDA w : w.msg.type \in {"result", "error"})

\* the response the outcome of the handler calls for
Expected ==
  [type |-> IF last.handled = "ok" THEN "result" ELSE "error", id |-> last.id,
   code |-> IF last.handled = "ok" THEN 0 ELSE -32000]

\* C7 as stated: a line that parses as JSON with method and id gets exactly
\* one response with that id, a result or an error -32000 by the handler's
\* outcome; a line with method and no id gets no response.
C7_AsStated ==
  /\ (last.kind = "json" /\ last.method # "absent" /\ last.id # None)
       => /\ Len(ResponsesTried) = 1
          /\ ResponsesTried[1].ok
          /\ ResponsesTried[1].msg.id = last.id
  /\ (last.kind = "json" /\ last.method # "absent" /\ last.id = None)
       => ResponsesTried = <<>>

\* C7: for a line that parses as JSON with a string method and an id the
\* dispatcher makes exactly one write, of a response with that id: a result
\* when the handler succeeds, an error -32000 when it fails (the response is
\* lost, and the daemon exits, when that write fails); for a line with a
\* string method and no id it writes no response; for a line whose method is
\* absent or not a string it writes nothing, with or without an id.
C7_OneResponsePerRequest ==
  /\ (last.kind = "json" /\ last.method \in Methods /\ last.id # None)
       => /\ Len(last.wrote) = 1
          /\ last.wrote[1].msg = Expected
          /\ (status = "failed") = ~last.wrote[1].ok
  /\ (last.kind = "json" /\ last.method \in Methods /\ last.id = None)
       => ResponsesTried = <<>>
  /\ (last.kind = "json" /\ last.method \notin Methods) => last.wrote = <<>>

\* a failed analyzeFile request answered with an error that carries its id
C7_Witness ==
  /\ last.kind = "json" /\ last.method = "analyzeFile" /\ last.id = Some("1")
  /\ last.handled = "err"
  /\ Len(out) > 1
  /\ out[Len(out)] = [type |-> "error", id |-> Some("1"), code |-> -32000]

\* C8 as stated: no error path ends the loop but the closure of stdin: after a
\* malformed line, an empty line, a handler error or a failed write the
\* daemon keeps reading.
C8_AsStated == status \in {"running", "eof"}

(***************************************************************************)
(* SpecCaps: apply_diagnostic_caps (main.rs 914-939) step by step, on the  *)
(* diagnostics of one file.  A diagnostic is its code and its fixes; fix j *)
(* of diagnostic i is the pair <<i, j>>.                                   *)
(***************************************************************************)
outsideCall == <<daemon, env, calls, writes, runs, loop, proj, req>>

Diagnostic(i, n) == [code |-> i, fixes |-> [j \in 1..n |-> <<i, j>>]]

\* the lists of up to MaxCapDiags diagnostics with up to MaxCapFixes fixes each
DiagnosticLists ==
  UNION {{[i \in 1..n |-> Diagnostic(i, count[i])] :
            count \in [1..n -> 0..MaxCapFixes]} : n \in 0..MaxCapDiags}

\* a loop body that does not spend the budget
CapFixes_budget_kept(fixes, remaining) ==
  IF fixes = <<>> THEN [fixes |-> fixes, remaining |-> remaining]
  ELSE IF remaining = 0 THEN [fixes |-> <<>>, remaining |-> remaining]
  ELSE IF Len(fixes) > remaining
         THEN [fixes |-> SubSeq(fixes, 1, remaining), remaining |-> remaining]
  ELSE [fixes |-> fixes, remaining |-> remaining]

\* the body of the loop over the diagnostics (main.rs 924-938): the fixes the
\* diagnostic keeps and the budget left
CapFixes(fixes, remaining) ==
  IF fixes = <<>> THEN [fixes |-> fixes, remaining |-> remaining]
  ELSE IF remaining = 0 THEN [fixes |-> <<>>, remaining |-> remaining]
  ELSE IF Len(fixes) > remaining
         THEN [fixes |-> SubSeq(fixes, 1, remaining), remaining |-> 0]
  ELSE [fixes |-> fixes, remaining |-> remaining - Len(fixes)]

\* apply_diagnostic_caps is called
CapsCall(diags, max_diags, max_fixes) ==
  /\ call.pc = "idle"
  /\ call' = [pc |-> "truncate", input |-> diags, diags |-> diags,
              max_diags |-> max_diags, max_fixes |-> max_fixes,
              remaining |-> 0, i |-> 1]
  /\ UNCHANGED outsideCall

\* diags.truncate(max_diags) and the early return (main.rs 915-921)
CapsTruncate ==
  /\ call.pc = "truncate"
  /\ call' = [call EXCEPT
                !.diags = IF call.max_diags > 0 /\ Len(@) > call.max_diags
                            THEN SubSeq(@, 1, call.max_diags) ELSE @,
                !.remaining = call.max_fixes,
                !.pc = IF call.max_fixes = 0 THEN "returned" ELSE "loop"]
  /\ UNCHANGED outsideCall

\* one round of the loop (main.rs 924-938)
CapsLoop ==
  /\ call.pc = "loop"
  /\ call.i <= Len(call.diags)
  /\ LET capped == CapFixes(call.diags[call.i].fixes, call.remaining)
     IN call' = [call EXCEPT !.diags[call.i].fixes = capped.fixes,
                             !.remaining = capped.remaining,
                             !.i = @ + 1]
  /\ UNCHANGED outsideCall

\* the loop ends
CapsReturn ==
  /\ call.pc = "loop"
  /\ call.i > Len(call.diags)
  /\ call' = [call EXCEPT !.pc = "returned"]
  /\ UNCHANGED outsideCall

NextCaps ==
  \/ \E diags \in DiagnosticLists, max_diags \in 0..MaxCap,
        max_fixes \in 0..MaxCap : CapsCall(diags, max_diags, max_fixes)
  \/ CapsTruncate
  \/ CapsLoop
  \/ CapsReturn

InitCaps == InitDaemon /\ varied = "file"

SpecCaps == InitCaps /\ [][NextCaps]_vars

(***************************************************************************)
(* Claim on the caps (C17), under SpecCaps.                                *)
(***************************************************************************)
\* the reference: the first D diagnostics (all when D = 0)
RefKept(diags, D) ==
  IF D > 0 THEN SubSeq(diags, 1, Min(D, Len(diags))) ELSE diags

\* the reference: the budget left before diagnostic i of the kept ones
RECURSIVE RefBudget(_, _, _)
RefBudget(kept, F, i) ==
  IF i = 1 THEN F
  ELSE RefBudget(kept, F, i - 1)
         - Min(Len(kept[i - 1].fixes), RefBudget(kept, F, i - 1))

\* the reference result
RefCaps(diags, D, F) ==
  LET kept == RefKept(diags, D)
  IN IF F = 0 THEN kept
     ELSE [i \in 1..Len(kept) |->
             [kept[i] EXCEPT !.fixes =
                SubSeq(@, 1, Min(Len(@), RefBudget(kept, F, i)))]]

RECURSIVE FixTotal(_)
FixTotal(diags) ==
  IF diags = <<>> THEN 0
  ELSE Len(diags[1].fixes) + FixTotal(Tail(diags))

\* C17: apply_diagnostic_caps returns the reference result: the first D
\* diagnostics in order (all when D = 0), each keeping its first fixes up to
\* the budget F left by those before it (all fixes when F = 0); so at most D
\* diagnostics and at most F fixes remain, and the fix cap removes no
\* diagnostic.
C17_CapsEqualReference ==
  call.pc = "returned" =>
    /\ call.diags = RefCaps(call.input, call.max_diags, call.max_fixes)
    /\ call.max_diags > 0 => Len(call.diags) <= call.max_diags
    /\ call.max_fixes > 0 => FixTotal(call.diags) <= call.max_fixes
    /\ Len(call.diags) = Len(RefKept(call.input, call.max_diags))
    /\ \A i \in 1..Len(call.diags) : call.diags[i].code = call.input[i].code

\* three diagnostics with two fixes each and F = 3 give fix counts 2, 1, 0
C17_Witness ==
  /\ call.pc = "returned"
  /\ call.input = [i \in 1..3 |-> Diagnostic(i, 2)]
  /\ call.max_diags = 0
  /\ call.max_fixes = 3
  /\ Len(call.diags) = 3
  /\ Len(call.diags[1].fixes) = 2
  /\ Len(call.diags[2].fixes) = 1
  /\ Len(call.diags[3].fixes) = 0

(***************************************************************************)
(* SpecOffsets: offset_to_line_col (main.rs 1104-1117) step by step on a   *)
(* text of up to MaxChars characters: a letter, a line feed, a character   *)
(* of two bytes and a character of four bytes (two UTF-16 code units).     *)
(* A text is the sequence of its UTF-8 bytes.                              *)
(***************************************************************************)
Chars == {"a", "\n", "e-acute", "emoji"}

\* the UTF-8 encoding of a character
Utf8(ch) ==
  CASE ch = "a" -> <<"61">>
    [] ch = "\n" -> <<"0a">>
    [] ch = "e-acute" -> <<"c3", "a9">>
    [] ch = "emoji" -> <<"f0", "9f", "98", "80">>

RECURSIVE Encode(_)
Encode(chars) ==
  IF chars = <<>> THEN <<>> ELSE Utf8(Head(chars)) \o Encode(Tail(chars))

Texts == UNION {{Encode(s) : s \in [1..n -> Chars]} : n \in 0..MaxChars}

\* a byte 10xxxxxx
IsContinuation(b) == b \in {"a9", "9f", "98", "80"}

\* str::is_char_boundary
is_char_boundary(text, i) ==
  \/ i = 0
  \/ i = Len(text)
  \/ i < Len(text) /\ ~IsContinuation(text[i + 1])

\* build_line_starts (main.rs 1085-1093)
RECURSIVE LineStartsFrom(_, _)
LineStartsFrom(text, i) ==
  IF i >= Len(text) THEN <<>>
  ELSE (IF text[i + 1] = "0a" THEN <<i + 1>> ELSE <<>>)
         \o LineStartsFrom(text, i + 1)

build_line_starts(text) == <<0>> \o LineStartsFrom(text, 0)

\* str::encode_utf16().count() of the bytes from..to of the text
RECURSIVE Utf16Count(_, _, _)
Utf16Count(text, from, to) ==
  IF from >= to THEN 0
  ELSE (IF text[from + 1] = "f0" THEN 2
        ELSE IF IsContinuation(text[from + 1]) THEN 0
        ELSE 1) + Utf16Count(text, from + 1, to)

\* offset_to_line_col is called (main.rs 1104-1106)
OffsetCall(text, offset) ==
  /\ call.pc = "idle"
  /\ call' = [pc |-> "scan", text |-> text,
              line_starts |-> build_line_starts(text), given |-> offset,
              offset |-> Min(offset, Len(text)), line |-> 0, idx |-> 0,
              col |-> 0]
  /\ UNCHANGED outsideCall

\* one round of the loop over line_starts (main.rs 1107-1112)
OffsetScan ==
  /\ call.pc = "scan"
  /\ call.idx < Len(call.line_starts)
  /\ call' = IF call.line_starts[call.idx + 1] > call.offset
               THEN [call EXCEPT !.pc = "slice"]
             ELSE [call EXCEPT !.line = call.idx, !.idx = @ + 1]
  /\ UNCHANGED outsideCall

\* the loop has gone through line_starts
OffsetScanEnd ==
  /\ call.pc = "scan"
  /\ call.idx = Len(call.line_starts)
  /\ call' = [call EXCEPT !.pc = "slice"]
  /\ UNCHANGED outsideCall

\* &text[line_start..offset] panics unless both ends are character
\* boundaries; then the UTF-16 code units are counted (main.rs 1113-1116)
OffsetSlice ==
  /\ call.pc = "slice"
  /\ LET line_start == call.line_starts[call.line + 1]
     IN call' = IF /\ line_start <= call.offset
                   /\ is_char_boundary(call.text, line_start)
                   /\ is_char_boundary(call.text, call.offset)
                  THEN [call EXCEPT
                          !.pc = "returned",
                          !.col = Utf16Count(call.text, line_start, call.offset)]
                ELSE [call EXCEPT !.pc = "panicked"]
  /\ UNCHANGED outsideCall

NextOffsets ==
  \/ \E text \in Texts, offset \in 0..(4 * MaxChars + 1) :
       /\ offset <= Len(text) + 1
       /\ OffsetCall(text, offset)
  \/ OffsetScan
  \/ OffsetScanEnd
  \/ OffsetSlice

InitOffsets == InitDaemon /\ varied = "file"

SpecOffsets == InitOffsets /\ [][NextOffsets]_vars

(***************************************************************************)
(* Claim on offset_to_line_col (C18), under SpecOffsets.                   *)
(***************************************************************************)
\* C18 as stated: for every text and every byte offset, those inside a
\* character of several bytes included, the call returns (L, C) where L is
\* the last line that starts at or before the offset (taken as len(text) when
\* greater) and C is the number of UTF-16 code units from the start of that
\* line to the offset.
C18_AsStated ==
  call.pc \in {"returned", "panicked"} =>
    /\ call.pc = "returned"
    /\ call.offset = Min(call.given, Len(call.text))
    /\ call.line_starts[call.line + 1] <= call.offset
    /\ \/ call.line + 1 = Len(call.line_starts)
       \/ call.line_starts[call.line + 2] > call.offset
    /\ call.col = Utf16Count(call.text, call.line_starts[call.line + 1],
                             call.offset)

(***************************************************************************)
(* SpecPercent: the progress report of the worker closure (main.rs         *)
(* 539-548) for one value of the done counter, step by step:               *)
(*   percent = (finished as f64 / total as f64 * 100.0) as u32             *)
(* An f64 is modelled by its exponent and the 53 bits of its significand   *)
(* (most significant first, the first is 1), and the two operations round  *)
(* to nearest, ties to even, as IEEE 754 prescribes.                       *)
(***************************************************************************)
\* the arithmetic below works on groups of 13 binary digits, so that every
\* intermediate value fits the integers of the model checker
Limb == TwoTo(13)

\* the w binary digits of v < 2^w, most significant first
BitsFixed(v, w) == [k \in 1..w |-> (v \div TwoTo(w - k)) % 2]

\* the natural number a short sequence of binary digits stands for
RECURSIVE ValueOf(_)
ValueOf(bits) ==
  IF bits = <<>> THEN 0
  ELSE 2 * ValueOf(SubSeq(bits, 1, Len(bits) - 1)) + bits[Len(bits)]

\* the binary digits of a sequence of groups
RECURSIVE BitsOfLimbs(_)
BitsOfLimbs(limbs) ==
  IF limbs = <<>> THEN <<>>
  ELSE BitsFixed(limbs[1], 13) \o BitsOfLimbs(SubSeq(limbs, 2, Len(limbs)))

\* the groups of a sequence of binary digits, the last group holding the
\* least significant 13
RECURSIVE LimbsOf(_)
LimbsOf(bits) ==
  IF Len(bits) <= 13 THEN <<ValueOf(bits)>>
  ELSE Append(LimbsOf(SubSeq(bits, 1, Len(bits) - 13)),
              ValueOf(SubSeq(bits, Len(bits) - 12, Len(bits))))

\* bits without its leading zeros
Normalized(bits) ==
  LET ones == {k \in 1..Len(bits) : bits[k] = 1}
      first == CHOOSE k \in ones : \A j \in ones : k <= j
  IN IF ones = {} THEN <<>> ELSE SubSeq(bits, first, Len(bits))

\* bits + 1, one digit longer when every digit is 1
Increment(bits) ==
  LET zeros == {k \in 1..Len(bits) : bits[k] = 0}
      last_ == CHOOSE k \in zeros : \A j \in zeros : j <= k
  IN IF zeros = {} THEN <<1>> \o [k \in 1..Len(bits) |-> 0]
     ELSE [k \in 1..Len(bits) |->
             IF k < last_ THEN bits[k] ELSE IF k = last_ THEN 1 ELSE 0]

\* round to nearest, ties to even: whether the kept digits are incremented
RoundsUp(kept, guard, sticky) ==
  guard = 1 /\ (sticky \/ kept[Len(kept)] = 1)

\* the f64 nearest to 1.b2b3.. * 2^e, where bits = <<1, b2, b3, ..>> and
\* sticky tells that digits other than 0 follow those given
RoundF64(bits, sticky, e) ==
  IF Len(bits) <= MantissaBits
    THEN [e |-> e,
          m |-> bits \o [k \in 1..(MantissaBits - Len(bits)) |-> 0]]
  ELSE LET kept == SubSeq(bits, 1, MantissaBits)
           guard == bits[MantissaBits + 1]
           more == sticky \/ \E k \in (MantissaBits + 2)..Len(bits) : bits[k] = 1
       IN IF ~RoundsUp(kept, guard, more) THEN [e |-> e, m |-> kept]
          ELSE LET up == Increment(kept)
               IN IF Len(up) > MantissaBits
                    THEN [e |-> e + 1, m |-> SubSeq(up, 1, MantissaBits)]
                  ELSE [e |-> e, m |-> up]

\* the least s with n * 2^s >= t
RECURSIVE ShiftTo(_, _)
ShiftTo(n, t) == IF n >= t THEN 0 ELSE 1 + ShiftTo(2 * n, t)

\* j groups of binary digits of r / t after the point (r < t), and what is
\* left
RECURSIVE LongDivision(_, _, _)
LongDivision(r, t, j) ==
  IF j = 0 THEN [limbs |-> <<>>, rem |-> r]
  ELSE LET v == r * Limb
           rest_ == LongDivision(v % t, t, j - 1)
       IN [limbs |-> <<v \div t>> \o rest_.limbs, rem |-> rest_.rem]

\* finished as f64 / total as f64, for 0 < finished <= total < 2^17
DivideF64(finished, total) ==
  LET s == ShiftTo(finished, total)
      n == finished * TwoTo(s)
      q == LongDivision(n - total, total, 5)
  IN RoundF64(<<1>> \o BitsOfLimbs(q.limbs), q.rem # 0, -s)

\* the groups of limbs * c, for a small c
RECURSIVE TimesSmall(_, _, _)
TimesSmall(limbs, c, carry) ==
  IF limbs = <<>> THEN <<carry>>
  ELSE LET v == limbs[Len(limbs)] * c + carry
       IN Append(TimesSmall(SubSeq(limbs, 1, Len(limbs) - 1), c, v \div Limb),
                 v % Limb)

\* x * 100.0
TimesHundredF64(x) ==
  LET whole == BitsOfLimbs(TimesSmall(LimbsOf(x.m), 100, 0))
      product == Normalized(whole)
  IN RoundF64(product, FALSE, x.e + (Len(product) - MantissaBits))

\* x as u32, for 0 <= x < 2^31: the fraction is dropped
AsU32(x) == IF x.e < 0 THEN 0 ELSE ValueOf(SubSeq(x.m, 1, x.e + 1))

\* done.fetch_add(1) + 1 has given finished (main.rs 539)
PercentCall(finished, total) ==
  /\ call.pc = "idle"
  /\ call' = [pc |-> "divide", finished |-> finished, total |-> total,
              x |-> [e |-> 0, m |-> <<>>], percent |-> 0, report |-> FALSE]
  /\ UNCHANGED outsideCall

\* finished as f64 / total as f64 (main.rs 540)
PercentDivide ==
  /\ call.pc = "divide"
  /\ call' = [call EXCEPT !.pc = "multiply",
                          !.x = DivideF64(call.finished, call.total)]
  /\ UNCHANGED outsideCall

\* .. * 100.0 (main.rs 540)
PercentMultiply ==
  /\ call.pc = "multiply"
  /\ call' = [call EXCEPT !.pc = "cast", !.x = TimesHundredF64(call.x)]
  /\ UNCHANGED outsideCall

\* .. as u32, and whether the report is sent (main.rs 540-548)
PercentReport ==
  /\ call.pc = "cast"
  /\ call' = [call EXCEPT !.pc = "returned", !.percent = AsU32(call.x),
                          !.report = Reports(call.finished, call.total)]
  /\ UNCHANGED outsideCall

\* the values of the done counter for which the computation is followed: all
\* of a short run, and those that are reported of a run of some hundreds of
\* files
PercentInputs ==
  {p \in (1..MaxPercentTotal) \X (1..MaxPercentTotal) :
     /\ p[1] <= p[2]
     /\ \/ p[2] <= MaxPoolFiles * 10
        \/ p[2] % 100 = 0 /\ Reports(p[1], p[2])}

NextPercent ==
  \/ \E p \in PercentInputs : PercentCall(p[1], p[2])
  \/ PercentDivide
  \/ PercentMultiply
  \/ PercentReport

InitPercent == InitDaemon /\ varied = "file"

SpecPercent == InitPercent /\ [][NextPercent]_vars

(***************************************************************************)
(* Claim on the progress reports (C25), under SpecPercent.                 *)
(***************************************************************************)
\* C25 as stated: a report is sent exactly when the value of the done counter
\* equals total or is a multiple of 10, and its percent is
\* floor(done * 100 / total).
C25_AsStated ==
  call.pc = "returned" =>
    /\ call.report = (call.finished = call.total \/ call.finished % 10 = 0)
    /\ call.report => call.percent = (call.finished * 100) \div call.total

(***************************************************************************)
(* SpecThrottle: the closures of one project run from the return of        *)
(* analyze_file to the publishDiagnostics line, with a clock.  A thread    *)
(* can be held up for any time between two of its steps.                   *)
(***************************************************************************)
Publishers == 1..MaxPublishers

\* the supervisor creates the limiter (main.rs 488) and the closures reach
\* throttle_publish
ThrottleStart(throttle_ms) ==
  /\ call.pc = "idle"
  /\ call' = [pc |-> "throttle", throttle_ms |-> throttle_ms, now |-> 0,
              last |-> 0 - throttle_ms, holder |-> None,
              at |-> [w \in Publishers |-> "ready"],
              wake |-> [w \in Publishers |-> 0],
              slept |-> [w \in Publishers |-> FALSE],
              sent |-> <<>>]
  /\ UNCHANGED outsideCall

\* time passes
Tick ==
  /\ call.pc = "throttle"
  /\ call.now < MaxClock
  /\ call' = [call EXCEPT !.now = @ + 1]
  /\ UNCHANGED outsideCall

\* throttle_publish is entered: with throttle_ms == 0 it returns (main.rs
\* 942-944)
ThrottleEnter(w) ==
  /\ call.pc = "throttle"
  /\ call.at[w] = "ready"
  /\ call' = [call EXCEPT !.at[w] = IF call.throttle_ms = 0 THEN "send"
                                    ELSE "lock"]
  /\ UNCHANGED outsideCall

\* the time slept with the limiter held (main.rs 946-950)
SleepFor(interval, elapsed) ==
  IF elapsed < interval THEN interval - elapsed ELSE 0

\* limiter.lock(), last.elapsed() and the start of the sleep (main.rs 945-950)
ThrottleLock(w) ==
  /\ call.pc = "throttle"
  /\ call.at[w] = "lock"
  /\ call.holder = None
  /\ LET elapsed == call.now - call.last
         interval == call.throttle_ms
     IN call' = [call EXCEPT !.holder = Some(w), !.at[w] = "sleep",
                             !.wake[w] = call.now + SleepFor(interval, elapsed),
                             !.slept[w] = SleepFor(interval, elapsed) > 0]
  /\ UNCHANGED outsideCall

\* the sleep is over, *last = Instant::now() and the guard is dropped
\* (main.rs 950-952)
ThrottleSet(w) ==
  /\ call.pc = "throttle"
  /\ call.at[w] = "sleep"
  /\ call.now >= call.wake[w]
  /\ call' = [call EXCEPT !.holder = None, !.at[w] = "send",
                          !.last = call.now]
  /\ UNCHANGED outsideCall

\* send_notification writes the publishDiagnostics line (main.rs 533-537)
ThrottleSend(w) ==
  /\ call.pc = "throttle"
  /\ call.at[w] = "send"
  /\ call' = [call EXCEPT !.at[w] = "done", !.sent = Append(@, call.now)]
  /\ UNCHANGED outsideCall

NextThrottle ==
  \/ \E throttle_ms \in 0..MaxThrottle : ThrottleStart(throttle_ms)
  \/ Tick
  \/ \E w \in Publishers : ThrottleEnter(w)
  \/ \E w \in Publishers : ThrottleLock(w)
  \/ \E w \in Publishers : ThrottleSet(w)
  \/ \E w \in Publishers : ThrottleSend(w)

InitThrottle == InitDaemon /\ varied = "file"

SpecThrottle == InitThrottle /\ [][NextThrottle]_vars

(***************************************************************************)
(* Claim on the throttle (C26), under SpecThrottle.                        *)
(***************************************************************************)
\* C26 as stated: with a throttle of T > 0 ms two consecutive
\* publishDiagnostics lines of a run are written at least T ms apart, and
\* with T = 0 throttle_publish neither takes the limiter nor sleeps.
C26_AsStated ==
  call.pc = "throttle" =>
    /\ \A k \in 1..(Len(call.sent) - 1) :
         call.sent[k + 1] - call.sent[k] >= call.throttle_ms
    /\ call.throttle_ms = 0 =>
         /\ call.holder = None
         /\ \A w \in Publishers : ~call.slept[w]

(***************************************************************************)
(* SpecDisk: the dispatcher serving analyzeFile from a cache directory     *)
(* that holds what other programs and earlier daemons left there: entries  *)
(* for the key of the call, files of that name that are no such entry,     *)
(* files that cannot be read.  The file is edited and made unreadable      *)
(* between the requests; disk writes and evictions fail.                   *)
(***************************************************************************)
\* the fingerprint and the cache directory of an analyzeFile call of mode
\* "full" made now
CallKey ==
  LET cc == resolve_compile_commands_path(settings, root_dir, compile_commands)
      compile_dir == IF cc = None THEN None ELSE Some(Parent(cc[1]))
      cc_mtime == IF cc = None THEN None ELSE mtime_for_path(cc[1])
  IN [fp |-> settings_fingerprint(settings, cc, cc_mtime,
                                  clang_tidy_config_mtime(root_dir, compile_dir),
                                  "full"),
      dir |-> resolve_cache_dir(settings, root_dir, compile_dir)]

\* files named as the entry of (mtime, size, fp): the entry, entries that
\* differ from it in one field, and files that are no entry
FilesNamedFor(mtime, size, fp) ==
  LET entry == DiskFile(FilePath, mtime, size, fp, <<MaxDiag>>)
      other_fp == settings_fingerprint(DefaultSettings, None, None, None,
                                       "quick")
  IN {entry,
      [entry EXCEPT !.data.version = DISK_CACHE_VERSION + 1],
      [entry EXCEPT !.data.filePath = OtherPath],
      [entry EXCEPT !.data.mtime = mtime + 1],
      [entry EXCEPT !.data.size = size + 1],
      [entry EXCEPT !.data.settingsHash = other_fp],
      [entry EXCEPT !.data = Unparsable],
      [entry EXCEPT !.data = Unreadable]}

\* a file appears in the cache directory under the name of the call's entry
PlantFile(f) ==
  /\ job["dispatcher"].pc = "idle"
  /\ fileSig # None
  /\ CallKey.dir # None
  /\ f \in FilesNamedFor(fileSig[1][1], fileSig[1][2], CallKey.fp)
  /\ f \notin disk[CallKey.dir[1]]
  /\ disk' = [disk EXCEPT ![CallKey.dir[1]] = Persisted(@, f)]
  /\ UNCHANGED <<settings, root_dir, compile_commands, compile_index, cache,
                 job, env>>

\* every file that may appear
PlantedFiles ==
  UNION {FilesNamedFor(m, 10, fp) :
           m \in 1..MaxMtime,
           fp \in {settings_fingerprint(
                     [DefaultSettings EXCEPT !.daemonCacheOnDisk = TRUE],
                     Some(DbDefault), Some(1), None, "full")}}

NextDisk ==
  \/ \E d \in BOOLEAN :
       /\ Initialize(TRUE, Some([DefaultSettings EXCEPT
                                   !.daemonCacheOnDisk = d]))
       /\ UNCHANGED <<calls, writes, rest>>
  \/ AnalyzeFile("full", FALSE) /\ UNCHANGED <<calls, writes, rest>>
  \/ Lookup("dispatcher") /\ UNCHANGED <<calls, writes, rest>>
  \/ \E outcome \in RunOutcomes :
       Run("dispatcher", outcome) /\ UNCHANGED <<calls, writes, rest>>
  \/ \E written \in BOOLEAN :
       Persist("dispatcher", written) /\ UNCHANGED <<calls, writes, rest>>
  \/ \E removed \in SUBSET Victims("dispatcher") :
       Evict("dispatcher", removed) /\ UNCHANGED <<calls, writes, rest>>
  \/ Written("dispatcher") /\ UNCHANGED <<calls, writes, rest>>
  \/ Respond /\ UNCHANGED <<calls, writes, rest>>
  \/ \E m \in 1..MaxMtime :
       Idle /\ ModifyFile(Some(<<m, 10>>)) /\ UNCHANGED <<calls, writes, rest>>
  \/ Idle /\ ModifyFile(None) /\ UNCHANGED <<calls, writes, rest>>
  \/ \E f \in PlantedFiles : PlantFile(f) /\ UNCHANGED <<calls, writes, rest>>

InitDisk == InitDaemon /\ varied = "file"

SpecDisk == InitDisk /\ [][NextDisk]_vars

(***************************************************************************)
(* Claims on the disk tier (C27, C28), under SpecDisk.                     *)
(***************************************************************************)
\* the file of the cache directory that the call in progress looks for
EntryOfCall ==
  LET j == job["dispatcher"]
  IN {f \in disk[j.dir[1]] :
        f.name = cache_file_name(cache_key_for_path(FilePath), j.sig[1][1],
                                 j.sig[1][2], j.fp)}

\* the call in progress has been answered from the disk tier
ServedFromDisk ==
  job["dispatcher"].pc = "respond" /\ job["dispatcher"].source = "disk"

\* C27: an analyzeFile call is answered from the disk tier only if the file of
\* the expected name parses and its schema version, file path, mtime, size and
\* settings fingerprint all equal the expected values; its diagnostics are then
\* returned without invoking the analyzer and stored in the memory tier under
\* the same (mtime, size, fingerprint), so that a lookup of the unchanged file
\* hits the memory tier.
C27_DiskEntryAcceptedOnlyIfAllMatch ==
  LET j == job["dispatcher"]
  IN ServedFromDisk =>
       /\ j.sig # None /\ j.dir # None
       /\ \E f \in EntryOfCall :
            /\ Reads(f.data) /\ Parses(f.data)
            /\ f.data.version = DISK_CACHE_VERSION
            /\ f.data.filePath = FilePath
            /\ f.data.mtime = j.sig[1][1]
            /\ f.data.size = j.sig[1][2]
            /\ f.data.settingsHash = j.fp
            /\ f.data.diagnostics = j.result
       /\ j.ok /\ ~j.invoked
       /\ cache[FilePath] = Some(CacheEntry(j.sig, j.fp, j.result))
       /\ LookupResult(cache[FilePath], disk, j.sig, j.fp, j.dir) = "memory"

\* an entry left in the cache directory is served and promoted
C27_Witness ==
  /\ ServedFromDisk
  /\ job["dispatcher"].result = <<MaxDiag>>
  /\ cache[FilePath] # None

\* the lookup that ends with this step finds the file of the expected name
\* missing, unreadable or unparsable after a miss of the memory tier
UnusableEntry ==
  LET j == job["dispatcher"]'
      named == {f \in disk[j.dir[1]] :
                  f.name = cache_file_name(cache_key_for_path(FilePath),
                                           j.sig[1][1], j.sig[1][2], j.fp)}
  IN /\ job["dispatcher"].pc = "lookup"
     /\ j.sig # None /\ j.dir # None
     /\ ~MemoryHit(cache[FilePath], j.sig[1][1], j.sig[1][2], j.fp)
     /\ \A f \in named : ~Reads(f.data) \/ ~Parses(f.data)

\* write_disk_cache has been called and has not returned
Writing == job["dispatcher"].pc \in {"persist", "evict", "written"}

\* the call in progress could not read the metadata of the file
NoSignature ==
  \/ job["dispatcher"].pc = "lookup" /\ fileSig = None
  \/ job["dispatcher"].pc \in {"run", "persist", "evict", "written"}
       /\ job["dispatcher"].sig = None

\* C28: cache I/O failures are not surfaced.  A lookup that finds the disk
\* entry missing, unreadable or unparsable goes on to the analyzer; once
\* write_disk_cache is called the memory tier holds the new entry and
\* analyze_file returns the diagnostics whether or not the file is written and
\* the older entries are removed; a call that cannot read the file's metadata
\* goes to the analyzer whatever the tiers hold and changes neither tier.
C28_CacheFailuresNotSurfaced ==
  [][ LET j == job["dispatcher"]
      IN /\ UnusableEntry => j'.pc = "run"
         /\ Writing =>
              /\ cache[FilePath] = Some(CacheEntry(j.sig, j.fp, j.result))
              /\ cache' = cache
              /\ j'.pc = "respond" =>
                   j'.ok /\ ~j'.failed /\ j'.result = j.result
         /\ NoSignature =>
              /\ cache' = cache /\ disk' = disk
              /\ j'.pc \in {"run", "respond"}
              /\ j'.pc = "respond" => j'.source = "analyzer" ]_vars

\* a call returns the analyzer's diagnostics and the memory tier holds them
\* although the entry could not be written to the cache directory
C28_Witness ==
  LET j == job["dispatcher"]
  IN /\ j.pc = "respond" /\ j.source = "analyzer" /\ j.ok
     /\ j.sig # None /\ j.dir # None
     /\ j.result = <<MaxDiag>>
     /\ EntryOfCall = {}
     /\ cache[FilePath] = Some(CacheEntry(j.sig, j.fp, j.result))

(***************************************************************************)
(* SpecTimeout: one call of run_command_with_timeout with a timeout, the   *)
(* child process and a clock.  The child exits when it likes; spawn and    *)
(* try_wait can fail.                                                      *)
(***************************************************************************)
\* the clock stops once the timeout and two more polls have passed
LastInstant == (MaxTimeoutPolls + 2) * PollMs

\* run_command_with_timeout is called with timeout_ms > 0 (main.rs 954-961)
TimeoutCall(timeout_ms) ==
  /\ call.pc = "idle"
  /\ call' = [pc |-> "spawn", timeout_ms |-> timeout_ms, now |-> 0,
              start |-> 0, wake |-> 0, child |-> "none", killed |-> FALSE,
              result |-> "none"]
  /\ UNCHANGED outsideCall

\* time passes
TimeoutTick ==
  /\ call.pc \in {"spawn", "poll", "check", "sleep", "kill", "wait", "read"}
  /\ call.now < LastInstant
  /\ call' = [call EXCEPT !.now = @ + PollMs]
  /\ UNCHANGED outsideCall

\* the analyzer exits: it stays a zombie until it is waited for
ChildExits ==
  /\ call.pc \in {"poll", "check", "sleep", "kill", "wait", "returned"}
  /\ call.child = "running"
  /\ call' = [call EXCEPT !.child = "exited"]
  /\ UNCHANGED outsideCall

\* cmd.spawn() and Instant::now() (main.rs 961-962)
Spawn(ok) ==
  /\ call.pc = "spawn"
  /\ call' = IF ok THEN [call EXCEPT !.pc = "poll", !.child = "running",
                                     !.start = call.now]
             ELSE [call EXCEPT !.pc = "returned", !.result = "spawn_error"]
  /\ UNCHANGED outsideCall

\* child.try_wait()? (main.rs 964): an error is returned at once; an exited
\* child is reaped
TryWait(ok) ==
  /\ call.pc = "poll"
  /\ call' = IF ~ok THEN [call EXCEPT !.pc = "returned",
                                      !.result = "poll_error"]
             ELSE IF call.child = "exited"
                    THEN [call EXCEPT !.pc = "read", !.child = "reaped"]
             ELSE [call EXCEPT !.pc = "check"]
  /\ UNCHANGED outsideCall

\* the pipes are read and the Output is returned (main.rs 965-977)
ReadOutput ==
  /\ call.pc = "read"
  /\ call' = [call EXCEPT !.pc = "returned", !.result = "output"]
  /\ UNCHANGED outsideCall

\* start.elapsed() >= timeout, else thread::sleep (main.rs 979, 984)
CheckElapsed ==
  /\ call.pc = "check"
  /\ call' = IF call.now - call.start >= call.timeout_ms
               THEN [call EXCEPT !.pc = "kill"]
             ELSE [call EXCEPT !.pc = "sleep", !.wake = call.now + PollMs]
  /\ UNCHANGED outsideCall

\* the sleep is over
WakeUp ==
  /\ call.pc = "sleep"
  /\ call.now >= call.wake
  /\ call' = [call EXCEPT !.pc = "poll"]
  /\ UNCHANGED outsideCall

\* let _ = child.kill() (main.rs 980)
Kill ==
  /\ call.pc = "kill"
  /\ call' = [call EXCEPT !.pc = "wait", !.killed = TRUE,
                          !.child = IF @ = "running" THEN "exited" ELSE @]
  /\ UNCHANGED outsideCall

\* let _ = child.wait() and the error (main.rs 981-982)
Wait ==
  /\ call.pc = "wait"
  /\ call.child = "exited"
  /\ call' = [call EXCEPT !.pc = "returned", !.child = "reaped",
                          !.result = "timeout"]
  /\ UNCHANGED outsideCall

NextTimeout ==
  \/ \E k \in 1..MaxTimeoutPolls : TimeoutCall(k * PollMs)
  \/ TimeoutTick
  \/ ChildExits
  \/ \E ok \in BOOLEAN : Spawn(ok)
  \/ \E ok \in BOOLEAN : TryWait(ok)
  \/ ReadOutput
  \/ CheckElapsed
  \/ WakeUp
  \/ Kill
  \/ Wait

InitTimeout == InitDaemon /\ varied = "file"

SpecTimeout == InitTimeout /\ [][NextTimeout]_vars

(***************************************************************************)
(* Claim on the timeout (C29), under SpecTimeout.                          *)
(***************************************************************************)
\* C29 as stated: when run_command_with_timeout has returned, no child is
\* left running or unreaped, whether it returned the output, the timeout
\* error or the error of a status poll; the timeout error is returned only
\* after the timeout has elapsed and the child has been killed and reaped, and
\* the output only for a child seen exited.
C29_AsStated ==
  call.pc = "returned" =>
    /\ call.child \in {"none", "reaped"}
    /\ call.result = "timeout" =>
         /\ call.killed /\ call.child = "reaped"
         /\ call.now - call.start >= call.timeout_ms
    /\ call.result = "output" => ~call.killed /\ call.child = "reaped"

(***************************************************************************)
(* SpecLocks: the threads of the daemon and the mutexes they share.  Every *)
(* function is followed through the lock() calls, the drops of the guards, *)
(* the analyzer subprocess and the sleeps it makes, in the order of the    *)
(* source; what it computes is left out.                                   *)
(***************************************************************************)
Locks ==
  {"settings", "root_dir", "compile_commands", "compile_index", "cache",
   "cancel_map", "stdout", "limiter"}

PoolThreads == {"worker1", "worker2"}
LockThreads == {"dispatcher", "supervisor"} \cup PoolThreads

Lock(l) == <<"lock", l>>
Unlock(l) == <<"unlock", l>>

\* a statement that locks l and drops the guard at its end
Guarded(l) == <<Lock(l), Unlock(l)>>

\* run_command_with_timeout: the analyzer is spawned and reaped (or not)
Subprocess == <<<<"spawn", "analyzer">>, <<"reap", "analyzer">>>>

\* an analyze_file that keeps the guard of the memory tier while the analyzer
\* runs
analyze_file_locks_held_over_run ==
  {Guarded("cache"),
   <<Lock("cache")>> \o Subprocess \o <<Unlock("cache")>>}

\* analyze_file (main.rs 615-696): no metadata; a memory hit; a disk hit; a
\* miss with the analyzer failing; a miss with the result stored
analyze_file_locks ==
  {Subprocess,
   Guarded("cache"),
   Guarded("cache") \o Guarded("cache"),
   Guarded("cache") \o Subprocess,
   Guarded("cache") \o Subprocess \o Guarded("cache")}

\* the steps of a function or statement, one sequence per path through it
LockSteps(f) ==
  CASE f \in Locks -> {Guarded(f)}
    [] f = "write_json" -> {Guarded("stdout")}
    \* a log or report notification that is sent on some paths only
    [] f = "send_notification?" -> {<<>>, Guarded("stdout")}
    \* main.rs 941-952
    [] f = "throttle_publish" ->
         {<<>>,
          <<Lock("limiter"), Unlock("limiter")>>,
          <<Lock("limiter"), <<"sleep", "limiter">>, Unlock("limiter")>>}
    \* main.rs 1358-1378
    [] f = "resolve_compile_commands_path" ->
         {<<>>, Guarded("compile_commands"),
          Guarded("compile_commands") \o Guarded("compile_commands")}
    \* main.rs 1409-1451
    [] f = "get_compile_index" ->
         {<<>>, Guarded("compile_index"),
          Guarded("compile_index") \o Guarded("compile_index")}
    \* main.rs 1327-1345
    [] f = "is_cached" -> {<<>>, Guarded("cache")}
    [] f = "analyze_file" -> analyze_file_locks
    \* main.rs 564-576: the guard lives to the end of the block
    [] f = "cancel" -> {<<>>, Guarded("cancel_map")}

\* the calls of a request or notification handler and of the response
\* (main.rs 262-284, 294-596)
Handler(method) ==
  CASE method = "initialize" ->
         <<"root_dir", "settings", "compile_commands", "compile_index",
           "write_json">>
    [] method = "analyzeFile" ->
         <<"settings", "root_dir", "resolve_compile_commands_path",
           "get_compile_index", "send_notification?", "analyze_file",
           "write_json">>
    [] method = "analyzeProject" ->
         <<"settings", "root_dir", "resolve_compile_commands_path",
           "get_compile_index", "send_notification?", "cancel_map",
           "thread::spawn", "write_json">>
    [] method = "cancel" -> <<"cancel", "write_json">>
    [] method = "configChanged" ->
         <<"settings", "compile_commands", "compile_index", "write_json">>

HandledMethods == Methods \ {"ping"}

\* the supervisor thread (main.rs 418-559)
SupervisorCalls ==
  <<"write_json", "is_cached", "pool.execute", "pool.join", "write_json">>

\* the closure of a file (main.rs 504-549)
ClosureCalls ==
  <<"analyze_file", "send_notification?", "throttle_publish", "write_json",
    "send_notification?">>

NoThread == [todo |-> <<>>, steps |-> <<>>, held |-> {}, child |-> FALSE]

ThreadIdle(t) == call.thr[t].todo = <<>> /\ call.thr[t].steps = <<>>

\* main creates the mutexes and reads stdin (main.rs 231-244)
MainStarts ==
  /\ call.pc = "idle"
  /\ call' = [pc |-> "locks", thr |-> [t \in LockThreads |-> NoThread]]
  /\ UNCHANGED outsideCall

\* the dispatcher reads a line
HandleLine(method) ==
  /\ call.pc = "locks"
  /\ ThreadIdle("dispatcher")
  /\ call' = [call EXCEPT !.thr["dispatcher"].todo = Handler(method)]
  /\ UNCHANGED outsideCall

\* the thread calls the next function of its list
Enter(t, s) ==
  /\ call.pc = "locks"
  /\ call.thr[t].steps = <<>>
  /\ call.thr[t].todo # <<>>
  /\ Head(call.thr[t].todo) \notin {"thread::spawn", "pool.execute", "pool.join"}
  /\ s \in LockSteps(Head(call.thr[t].todo))
  /\ call' = [call EXCEPT !.thr[t].todo = Tail(@), !.thr[t].steps = s]
  /\ UNCHANGED outsideCall

\* thread::spawn (main.rs 418): the model follows one supervisor at a time
ThreadSpawn ==
  /\ call.pc = "locks"
  /\ call.thr["dispatcher"].steps = <<>>
  /\ call.thr["dispatcher"].todo # <<>>
  /\ Head(call.thr["dispatcher"].todo) = "thread::spawn"
  /\ call' = [call EXCEPT
                !.thr["dispatcher"].todo = Tail(@),
                !.thr["supervisor"].todo =
                  IF ThreadIdle("supervisor") THEN SupervisorCalls ELSE @]
  /\ UNCHANGED outsideCall

\* pool.execute for the files of a chunk (main.rs 491-550)
ExecutePool ==
  /\ call.pc = "locks"
  /\ call.thr["supervisor"].steps = <<>>
  /\ call.thr["supervisor"].todo # <<>>
  /\ Head(call.thr["supervisor"].todo) = "pool.execute"
  /\ call' = [call EXCEPT
                !.thr = [t \in LockThreads |->
                           IF t = "supervisor"
                             THEN [@[t] EXCEPT !.todo = Tail(@)]
                           ELSE IF t \in PoolThreads
                             THEN [@[t] EXCEPT !.todo = ClosureCalls]
                           ELSE @[t]]]
  /\ UNCHANGED outsideCall

\* pool.join (main.rs 552)
JoinPool ==
  /\ call.pc = "locks"
  /\ call.thr["supervisor"].steps = <<>>
  /\ call.thr["supervisor"].todo # <<>>
  /\ Head(call.thr["supervisor"].todo) = "pool.join"
  /\ \A t \in PoolThreads : ThreadIdle(t)
  /\ call' = [call EXCEPT !.thr["supervisor"].todo = Tail(@)]
  /\ UNCHANGED outsideCall

\* the mutex is held by some thread
Held(l) == \E u \in LockThreads : l \in call.thr[u].held

\* the next step of the thread: Mutex::lock waits while the mutex is held
LockStep(t) ==
  /\ call.pc = "locks"
  /\ call.thr[t].steps # <<>>
  /\ LET step == Head(call.thr[t].steps)
     IN /\ step[1] = "lock" => ~Held(step[2])
        /\ call' = [call EXCEPT
                      !.thr[t].steps = Tail(@),
                      !.thr[t].held =
                        IF step[1] = "lock" THEN @ \cup {step[2]}
                        ELSE IF step[1] = "unlock" THEN @ \ {step[2]}
                        ELSE @,
                      !.thr[t].child =
                        IF step[1] = "spawn" THEN TRUE
                        ELSE IF step[1] = "reap" THEN FALSE
                        ELSE @]
  /\ UNCHANGED outsideCall

\* every path through a function
AllLockSteps ==
  UNION {LockSteps(f) :
           f \in Locks \cup {"write_json", "send_notification?",
                             "throttle_publish", "resolve_compile_commands_path",
                             "get_compile_index", "is_cached", "analyze_file",
                             "cancel"}}

NextLocks ==
  \/ MainStarts
  \/ \E method \in HandledMethods : HandleLine(method)
  \/ \E t \in LockThreads, s \in AllLockSteps : Enter(t, s)
  \/ ThreadSpawn
  \/ ExecutePool
  \/ JoinPool
  \/ \E t \in LockThreads : LockStep(t)

InitLocks == InitDaemon /\ varied = "file"

SpecLocks == InitLocks /\ [][NextLocks]_vars

(***************************************************************************)
(* Claim on the locks (C30), under SpecLocks.                              *)
(***************************************************************************)
\* the thread waits for a mutex that is held
Waiting(t) ==
  /\ call.thr[t].steps # <<>>
  /\ Head(call.thr[t].steps)[1] = "lock"
  /\ Held(Head(call.thr[t].steps)[2])

ListedEntries == {EntryAbs, EntryRel, EntryNoRef, EntryOther}
Databases == UNION {[1..n -> ListedEntries] : n \in 0..MaxDbEntries}

\* the sequences that hold every element of S once
Orders(S) ==
  {o \in [1..Cardinality(S) -> S] : \A x \in S : \E k \in DOMAIN o : o[k] = x}

\* load_project_files (main.rs 1391-1407): the entries' paths, made absolute,
\* are inserted in a HashSet, whose iteration gives them in some order
load_project_files(entries) ==
  Orders({IF IsAbsolute(entries[i].file) THEN entries[i].file
          ELSE Join(entries[i].directory, entries[i].file) :
            i \in 1..Len(entries)})

\* the supervisor is to take the file list of a database (main.rs 451-464)
ListCall(entries) ==
  /\ call.pc = "idle"
  /\ call' = [pc |-> "index", entries |-> entries, from_index |-> <<>>,
              from_db |-> <<>>]
  /\ UNCHANGED outsideCall

\* index.files.clone() (main.rs 452)
ListFromIndex ==
  /\ call.pc = "index"
  /\ call' = [call EXCEPT
                !.pc = "load",
                !.from_index = BuildIndex(DbDefault, 1, call.entries).files]
  /\ UNCHANGED outsideCall

\* load_project_files(&compile_commands) (main.rs 454)
ListFromDb(files) ==
  /\ call.pc = "load"
  /\ files \in load_project_files(call.entries)
  /\ call' = [call EXCEPT !.pc = "returned", !.from_db = files]
  /\ UNCHANGED outsideCall

\* every list load_project_files may return
LoadedLists ==
  UNION {Orders(S) : S \in SUBSET {FilePath, OtherPath, "/p/./a.cc"}}

NextList ==
  \/ \E entries \in Databases : ListCall(entries)
  \/ ListFromIndex
  \/ \E files \in LoadedLists : ListFromDb(files)

InitList == InitDaemon /\ varied = "file"

SpecList == InitList /\ [][NextList]_vars

(***************************************************************************)
(* Claim on the file lists (C31), under SpecList.                          *)
(***************************************************************************)
\* how often the list names the file, whatever the spelling of its path
Occurrences(list, file) ==
  Cardinality({k \in DOMAIN list : Canonical(list[k]) = file})

\* C31 as stated: the list of the index and the list parsed from the database
\* hold the same files, each the same number of times.
C31_AsStated ==
  call.pc = "returned" =>
    \A file \in {FilePath, OtherPath} :
      Occurrences(call.from_index, file) = Occurrences(call.from_db, file)

(***************************************************************************)
(* SpecFilter: what analyze_file and analyze_file_with_content make of the *)
(* analyzer's report, from parse_diagnostics to the retain on the query    *)
(* file.  A diagnostic keeps the path it was reported with.                *)
(***************************************************************************)
\* temp_dir.path().join(filename): the shadow copy of the unsaved buffer
ShadowPath == "/tmp/unsaved/a.cc"

\* the paths the analyzer reports: the query file in three spellings, another
\* file, the shadow copy
ReportedPaths == {FilePath, "/p/./a.cc", "a.cc", OtherPath, ShadowPath}
Reported ==
  UNION {[1..n -> ReportedPaths] : n \in 0..MaxReported}
ReportedFixes ==
  UNION {[1..n -> ReportedPaths] : n \in 0..MaxReportedFixes}

\* paths_match (main.rs 1347-1351)
paths_match(a, b) == Canonical(a) = Canonical(b)

\* resolve_path(..).unwrap_or_else(|| default_file) (main.rs 1119-1131)
resolve_path(path_str, root, default_file) ==
  IF path_str = "" THEN default_file
  ELSE IF IsAbsolute(path_str) THEN path_str
  ELSE IF root # None THEN Join(root[1], path_str)
  ELSE path_str

\* parse_diagnostics (main.rs 790-817): one diagnostic per line
parse_diagnostics(output, root, default_file) ==
  [k \in 1..Len(output) |->
     [file |-> resolve_path(output[k], root, default_file),
      reported |-> output[k], fix |-> FALSE]]

\* parse_fixes (main.rs 819-886): the fixes of other files are dropped
parse_fixes(fixes, root, target_file) ==
  LET parsed == [k \in 1..Len(fixes) |->
                   [file |-> resolve_path(fixes[k], root, target_file),
                    reported |-> fixes[k], fix |-> TRUE]]
      OfTarget(d) == paths_match(d.file, target_file)
  IN SelectSeq(parsed, OfTarget)

\* diag.file = file_path.to_path_buf() for every parsed diagnostic (main.rs
\* 772-774, 778-780)
Relabelled(diags, file_path) ==
  [k \in 1..Len(diags) |-> [diags[k] EXCEPT !.file = file_path]]

\* diags.retain(|d| paths_match(&d.file, file_path)) (main.rs 676, 783)
Retained(diags, file_path) ==
  LET OfQuery(d) == paths_match(d.file, file_path)
  IN SelectSeq(diags, OfQuery)

\* the analyzer has run for FilePath, on the file or on its shadow copy
FilterCall(unsaved, root, output, fixes) ==
  /\ call.pc = "idle"
  /\ call' = [pc |-> "parse", unsaved |-> unsaved, root |-> root,
              output |-> output, fixes |-> fixes, diags |-> <<>>]
  /\ UNCHANGED outsideCall

\* analyze_file: parse_diagnostics, parse_fixes, merge_diagnostics (main.rs
\* 669-674)
FilterParse ==
  /\ call.pc = "parse"
  /\ ~call.unsaved
  /\ call' = [call EXCEPT
                !.pc = "retain",
                !.diags = parse_diagnostics(call.output, call.root, FilePath)
                          \o parse_fixes(call.fixes, call.root, FilePath)]
  /\ UNCHANGED outsideCall

\* analyze_file_with_content: the same on the shadow copy, every diagnostic
\* given the path of the query file (main.rs 771-781)
FilterParseUnsaved ==
  /\ call.pc = "parse"
  /\ call.unsaved
  /\ call' = [call EXCEPT
                !.pc = "retain",
                !.diags =
                  Relabelled(parse_diagnostics(call.output, call.root,
                                               ShadowPath), FilePath)
                  \o Relabelled(parse_fixes(call.fixes, call.root, ShadowPath),
                                FilePath)]
  /\ UNCHANGED outsideCall

\* the retain on the query file (main.rs 676, 783)
FilterRetain ==
  /\ call.pc = "retain"
  /\ call' = [call EXCEPT !.pc = "returned",
                          !.diags = Retained(call.diags, FilePath)]
  /\ UNCHANGED outsideCall

NextFilter ==
  \/ \E unsaved \in BOOLEAN, root \in {None, Some(Root)},
        output \in Reported, fixes \in ReportedFixes :
       FilterCall(unsaved, root, output, fixes)
  \/ FilterParse
  \/ FilterParseUnsaved
  \/ FilterRetain

InitFilter == InitDaemon /\ varied = "file"

SpecFilter == InitFilter /\ [][NextFilter]_vars

(***************************************************************************)
(* Claim on the filter (C32), under SpecFilter.                            *)
(***************************************************************************)
\* the file the analyzer ran on: the query file, or its shadow copy
AnalyzedFile == IF call.unsaved THEN ShadowPath ELSE FilePath

\* the analyzer reported the diagnostic for the query file: for the file it
\* ran on or for the query file's own path
ReportedForQuery(d) ==
  LET at == resolve_path(d.reported, call.root, AnalyzedFile)
  IN paths_match(at, AnalyzedFile) \/ paths_match(at, FilePath)

\* C32 as stated: every diagnostic returned was reported for the query file
\* (on the unsaved-buffer path: for its shadow copy), under canonicalized
\* comparison; a diagnostic reported for another file is not returned.
C32_AsStated ==
  call.pc = "returned" =>
    \A k \in 1..Len(call.diags) : ReportedForQuery(call.diags[k])

(***************************************************************************)
(* Claim on cancel and a reused run id (C33), under SpecRun.               *)
(***************************************************************************)
\* the run's supervisor or one of its pool threads is still at work
StillRunning(r) ==
  run[r].pc \notin {"none", "finished", "aborted"} \/ Active(r) > 0

\* C33 as stated: a cancel request that names a run id sets the flag of every
\* run still running that was started under this id, and cancel("*") the flag
\* of every run still running.
C33_AsStated ==
  /\ \A id \in RunIds :
       {r \in Runs : StillRunning(r) /\ run[r].id = id} \subseteq CancelTargets(id)
  /\ {r \in Runs : StillRunning(r)} \subseteq CancelTargets("*")

(***************************************************************************)
(* Claim on is_cached and the lookups of analyze_file (C34), under         *)
(* SpecDisk.                                                               *)
(***************************************************************************)
\* an analyzeFile call of mode "full" made now would be answered from the
\* memory tier or the disk tier
ServedFromCache ==
  LookupResult(cache[FilePath], disk, fileSig, CallKey.fp, CallKey.dir) # "run"

\* C34 as stated: between two requests is_cached answers for the file what
\* the cache lookups of analyze_file would find: an incremental run skips the
\* file exactly if an analyzeFile call would serve it from a cache tier.
C34_AsStated ==
  job["dispatcher"].pc = "idle" =>
    (is_cached(FilePath, CallKey.fp, CallKey.dir) <=> ServedFromCache)

(***************************************************************************)
(* SpecPipe: one call of run_command_with_timeout with a timeout, and a    *)
(* child that writes its output to the two pipes before it exits.  A pipe  *)
(* holds PipeCapacity units; a write to a full pipe blocks until the other *)
(* end reads.  The child and the caller are as fast as they can be: the    *)
(* clock moves only in the caller's sleep and only while the child is      *)
(* blocked or gone, so that a child whose output is taken from the pipes   *)
(* exits at the instant it was started.                                    *)
(***************************************************************************)
\* what a pipe holds before a write to it blocks, and the most that the
\* child writes to one stream
PipeCapacity == 2
MaxOutput == 3

Streams == {"stdout", "stderr"}

\* run_command_with_timeout is called with timeout_ms > 0 for an analyzer that
\* writes output[s] units to stream s (main.rs 954-960)
PipeCall(timeout_ms, output) ==
  /\ call.pc = "idle"
  /\ call' = [pc |-> "spawn", timeout_ms |-> timeout_ms, now |-> 0,
              start |-> 0, wake |-> 0, child |-> "none", killed |-> FALSE,
              result |-> "none", output |-> output,
              pipe |-> [s \in Streams |-> 0],
              read |-> [s \in Streams |-> 0]]
  /\ UNCHANGED outsideCall

\* the child has output left for stream s and the pipe has room for it
CanWrite(s) ==
  /\ call.child = "running"
  /\ call.pipe[s] < call.output[s]
  /\ call.pipe[s] < PipeCapacity

\* the child has written all its output
AllWritten == \A s \in Streams : call.pipe[s] = call.output[s]

\* the child writes a unit of output to a pipe: nothing reads the pipes while
\* the child runs (main.rs 963-984)
ChildWrites(s) ==
  /\ call.pc \in {"poll", "check", "sleep", "kill"}
  /\ CanWrite(s)
  /\ call' = [call EXCEPT !.pipe[s] = @ + 1]
  /\ UNCHANGED outsideCall

\* the child exits after its last write
ChildReturns ==
  /\ call.pc \in {"poll", "check", "sleep", "kill"}
  /\ call.child = "running"
  /\ AllWritten
  /\ call' = [call EXCEPT !.child = "exited"]
  /\ UNCHANGED outsideCall

\* time passes in thread::sleep (main.rs 984), while the child is blocked in
\* a write or is gone
PipeTick ==
  /\ call.pc = "sleep"
  /\ call.now < LastInstant
  /\ call.child = "running" => (~AllWritten /\ \A s \in Streams : ~CanWrite(s))
  /\ call' = [call EXCEPT !.now = @ + PollMs]
  /\ UNCHANGED outsideCall

\* child.stdout and child.stderr are read to their end once try_wait has seen
\* the child exited (main.rs 964-977)
ReadPipes ==
  /\ call.pc = "read"
  /\ call' = [call EXCEPT !.pc = "returned", !.result = "output",
                          !.read = call.pipe]
  /\ UNCHANGED outsideCall

NextPipe ==
  \/ \E k \in 1..MaxTimeoutPolls, output \in [Streams -> 0..MaxOutput] :
       PipeCall(k * PollMs, output)
  \/ \E s \in Streams : ChildWrites(s)
  \/ ChildReturns
  \/ PipeTick
  \/ \E ok \in BOOLEAN : Spawn(ok)
  \/ \E ok \in BOOLEAN : TryWait(ok)
  \/ ReadPipes
  \/ CheckElapsed
  \/ WakeUp
  \/ Kill
  \/ Wait

InitPipe == InitDaemon /\ varied = "file"

SpecPipe == InitPipe /\ [][NextPipe]_vars

(***************************************************************************)
(* Claim on the analyzer's output under a timeout (C35), under SpecPipe.   *)
(***************************************************************************)
\* C35 as stated: with a timeout, an analyzer that would exit before the
\* timeout if its output were consumed, and whose spawn and status polls
\* succeed, is reported with its status and its complete output, however much
\* it writes.
C35_AsStated ==
  (call.pc = "returned" /\ call.result \notin {"spawn_error", "poll_error"}) =>
    /\ call.result = "output"
    /\ call.read = call.output

(***************************************************************************)
(* SpecOrder: one analyzeProject request followed line by line on stdout:  *)
(* the main thread from the handler to the response, the supervisor thread *)
(* from its spawn to its last notification.  The closures of the pool are  *)
(* run one after the other.                                                *)
(***************************************************************************)
\* the most files of the run
MaxOrderFiles == 2

\* the database: not found, found but not loadable, loaded
OrderDatabases == {"none", "bad", "ok"}

\* write_json (main.rs 1463-1468): a line is written under the stdout lock
Written_line(kind) == [call EXCEPT !.out = Append(@, kind)]

\* the main thread reads an analyzeProject request (main.rs 244-271)
OrderCall(database, total, fails) ==
  /\ call.pc = "idle"
  /\ call' = [pc |-> "order", main |-> "index", sup |-> "none",
              registered |-> FALSE, out |-> <<>>, database |-> database,
              total |-> total, fails |-> fails, k |-> 0]
  /\ UNCHANGED outsideCall

\* get_compile_index in the handler, and its error log (main.rs 400-412)
OrderIndex ==
  /\ call.pc = "order" /\ call.main = "index"
  /\ call' = [(IF call.database = "bad" THEN Written_line("log") ELSE call)
                EXCEPT !.main = "register"]
  /\ UNCHANGED outsideCall

\* cancel_map.insert (main.rs 414-415)
OrderRegister ==
  /\ call.pc = "order" /\ call.main = "register"
  /\ call' = [call EXCEPT !.main = "spawn", !.registered = TRUE]
  /\ UNCHANGED outsideCall

\* thread::spawn (main.rs 418): the supervisor starts, the handler goes on
OrderSpawn ==
  /\ call.pc = "order" /\ call.main = "spawn"
  /\ call' = [call EXCEPT !.main = "respond", !.sup = "begin"]
  /\ UNCHANGED outsideCall

\* the handler returns {runId} and the main loop writes the response
\* (main.rs 562, 270-275)
OrderRespond ==
  /\ call.pc = "order" /\ call.main = "respond"
  /\ call' = [Written_line("response") EXCEPT !.main = "done"]
  /\ UNCHANGED outsideCall

\* the supervisor's begin (main.rs 420-424) and what it turns to next
OrderBegin ==
  /\ call.pc = "order" /\ call.sup = "begin"
  /\ call' = [Written_line("begin") EXCEPT
                !.sup = IF call.database # "ok" THEN "error"
                        ELSE IF call.total = 0 THEN "end" ELSE "file"]
  /\ UNCHANGED outsideCall

\* no database, or load_project_files fails: an error log and no end
\* (main.rs 426-435, 451-462)
OrderError ==
  /\ call.pc = "order" /\ call.sup = "error"
  /\ call' = [Written_line("log") EXCEPT !.sup = "done"]
  /\ UNCHANGED outsideCall

\* a closure of the pool: an error log for a failed analysis, else
\* publishDiagnostics (main.rs 504-540)
OrderFile ==
  /\ call.pc = "order" /\ call.sup = "file"
  /\ call' = IF call.fails
               THEN [Written_line("log") EXCEPT
                       !.k = @ + 1,
                       !.sup = IF call.k + 1 = call.total THEN "end" ELSE "file"]
             ELSE [Written_line("publishDiagnostics") EXCEPT !.sup = "report"]
  /\ UNCHANGED outsideCall

\* the closure counts the file and reports the last one (main.rs 541-549)
OrderReport ==
  /\ call.pc = "order" /\ call.sup = "report"
  /\ call' = [(IF call.k + 1 = call.total THEN Written_line("report") ELSE call)
                EXCEPT !.k = @ + 1,
                       !.sup = IF call.k + 1 = call.total THEN "end" ELSE "file"]
  /\ UNCHANGED outsideCall

\* the supervisor's end (main.rs 476-483, 555-559)
OrderEnd ==
  /\ call.pc = "order" /\ call.sup = "end"
  /\ call' = [Written_line("end") EXCEPT !.sup = "done"]
  /\ UNCHANGED outsideCall

NextOrder ==
  \/ \E database \in OrderDatabases, total \in 0..MaxOrderFiles,
        fails \in BOOLEAN : OrderCall(database, total, fails)
  \/ OrderIndex
  \/ OrderRegister
  \/ OrderSpawn
  \/ OrderRespond
  \/ OrderBegin
  \/ OrderError
  \/ OrderFile
  \/ OrderReport
  \/ OrderEnd

InitOrder == InitDaemon /\ varied = "file"

SpecOrder == InitOrder /\ [][NextOrder]_vars

(***************************************************************************)
(* Claim on the response of analyzeProject (C36), under SpecOrder.         *)
(***************************************************************************)
\* C36 as stated: the {runId} response of an analyzeProject request is written
\* before any notification of the run (progress begin, report and end,
\* publishDiagnostics, error logs), and the cancellation flag of the run is
\* registered before the response is written.
C36_AsStated ==
  call.pc = "order" =>
    \A i \in 1..Len(call.out) :
      IF call.out[i] = "response" THEN call.registered
      ELSE \E j \in 1..(i - 1) : call.out[j] = "response"

====
